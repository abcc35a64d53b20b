\* Memory: pages of two bytes, two pages under a table, address spaces of up to 4 pages; 16 pages
\* do for two processes and one more address space, not always for two.
\* Draw: three processes with 1, 2 or 4 tickets, five-bit integers, one settickets().
\* Clock: two sleepers, words of two bits.
SPECIFICATION MCSpec
CONSTANTS
  NPROC = 2
  NPAGES = 16
  PGSIZE = 2
  NPTE = 2
  NPT = 3
  NKPT = 1
  WORD = 64
  Deltas <- MCDeltas
  Images <- MCImages
  MaxCalls = 3
  N = 3
  W = 5
  TicketArgs = {1, 2, 4}
  MaxChanges = 1
  Sleepers = {p1, p2}
  TICKWORD = 4
  MaxLag = 1
INVARIANTS MemoryIsConsistent DrawIsFair CallsDoAsAsked
PROPERTIES PartsGoOn
CHECK_DEADLOCK FALSE
