SPECIFICATION RequestSpec
CONSTANTS
  first = first
  retry = retry
  again = again
  misuse = misuse
  same = same
  other = other
  Absent = Absent
  Attempt = {first, retry, again, misuse}
  Hash = {same, other}
  HashOf <- OneMisuse
  MaxExpiries = 2
  MaxFaults = 1
SYMMETRY AttemptSymmetry
CHECK_DEADLOCK FALSE
INVARIANTS
  OnceUnlessFault
  AnswersTrue
