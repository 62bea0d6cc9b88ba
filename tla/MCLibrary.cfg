SPECIFICATION Spec
CONSTANT
  NoValue = NoValue
INVARIANTS
  ContainersSound NumbersRight   

   
