SPECIFICATION FairSpec
CONSTANTS
  max_nb_robots = 3
  MaxKeyframes <- Late
  Similarity <- AllSimilar
  inter_robot_loop_closure_budget = 1
  ChunkSize = 2
  Hearing <- Heard
  Outcomes <- Mixed
  Fading <- Fade
  MaxFaults = 1
INVARIANTS TypeOK NeverCandidateAgain RequestsAnswerable SelectedAccounted
PROPERTY EveryMatchDecided
CHECK_DEADLOCK FALSE
