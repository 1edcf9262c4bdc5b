SPECIFICATION Spec
CONSTANTS
    t1 = t1
    Tasks <- MCTasks
    Lists <- MCLists
PROPERTIES StopLasts
