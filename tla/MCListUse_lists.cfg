SPECIFICATION Spec
CONSTANTS
  MaxNodes = 5
  Programs = {{"append", "walk", "clear"}, {"prepend", "pop", "clear"}, {"push", "pop", "clear"},
              {"append", "walk", "prune"}}
INVARIANTS
  Faithful
CHECK_DEADLOCK FALSE
