SPECIFICATION FairSpec
CONSTANTS
  Requests = {r1}
  Workers = {w1}
  NoThread = none
  Quantity = 1
  Modern = FALSE
  MaxFaults = 1
PROPERTIES DueReceiptDecided HandlersEnd
