SPECIFICATION Spec
CONSTANTS
  MaxBills = 2
  MaxFaults = 2
PROPERTY SendsItsCommand
