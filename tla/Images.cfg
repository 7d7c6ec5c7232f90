\* A device whose limit changes between one and two pictures at a time.
SPECIFICATION RFairSpec
CONSTANTS
  Tasks = {t1, t2, t3, t4}
  Default = 1
  Asked = {0, 2}
  NoRender = NoRender
INVARIANTS
  SlotsAccounted
  NoIdleSlot
PROPERTIES
  FirstComeFirstServed
  CleanStart
  RendersEnd
