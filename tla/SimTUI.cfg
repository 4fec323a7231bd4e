SPECIFICATION Spec
CONSTANTS
  Names = {"Sinner", "Alcaraz"}
  Counts = {1}
  MaxLoads = 2
INVARIANTS TypeOK ResultIsOfTheForm OneRunAtATime
PROPERTY LoadingEnds
