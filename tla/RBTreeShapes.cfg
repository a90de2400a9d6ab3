\* Every shape of up to eleven nodes, named by their place in order.
SPECIFICATION Spec
CONSTANTS
  Node = {1, 2, 3, 4, 5, 6, 7, 8, 9, 10, 11}
  NIL = 0
VIEW Shape
INVARIANTS
  TypeOK
  RedBlack
  ParentsAgree
  CasesMeetNodes
PROPERTIES
  ImplementsTimeline
  TurnsRunOut
