\* A pipe of two bytes and a console ring of three characters, both smaller than a line; one
\* kill.  With the descriptors 0 to 2 taken, pipe() has room for one end only.  When everybody
\* has exited, nothing happens any more.
SPECIFICATION FairSpec
CONSTANTS
  Procs = {"sh", "left", "right"}
  Readers = {"left"}
  NFILE = 3
  NOFILE = 4
  q1 = q1
  Pipes = {q1}
  PIPESIZE = 2
  WORD = 8
  Byte = {"a", "b", "NL", "EOF"}
  Nobody = "nobody"
  NoReader = "nobody"
  INPUT_BUF = 3
  CWORD = 6
  Letters = {"a", "b"}
  NL = "NL"
  EOF = "EOF"
  BACKSPACE = "BS"
  KILL_LINE = "^U"
  Typings <- MCTypings
  ConsoleFDs = {{0, 1}, {0, 1, 2}}
  CatBuf = 3
  MaxKills = 1
INVARIANTS PipesAreConsistent NobodySleepsInVain
PROPERTIES RefinesLineEditor PipelineEnds
CHECK_DEADLOCK FALSE
