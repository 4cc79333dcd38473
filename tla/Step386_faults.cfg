SPECIFICATION Spec
CONSTANTS
  Eip = {0, 1}
  Handler = 1
  Val = {0, 1}
  MaxRun = 0
  MaxShadow = 0
INVARIANT DeliveryIsAtomic
PROPERTY FaultRewinds
PROPERTY ShutdownIsTripleFault
