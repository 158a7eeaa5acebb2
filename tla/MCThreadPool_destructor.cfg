SPECIFICATION Spec
CONSTANTS
  w1 = w1
  w2 = w2
  w3 = w3
  Workers <- ThreeWorkers
  QueueCapacity = 2
  NTasks = 2
PROPERTIES
  LeftoverDiscarded
