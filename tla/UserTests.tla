------------------------------- MODULE UserTests ------------------------------
(***************************************************************************)
(* The file system tests of usertests.c, run on the model of FileSystem:   *)
(* what they call, in which order and by whom, and what they expect.  The  *)
(* loops of a test are as short as they can be without losing their point; *)
(* names, lengths and contents are left out.  A test is a sequence of      *)
(* phases; in a phase its two processes run side by side, between phases   *)
(* they wait for each other.  A second descriptor of the parent is held by *)
(* the child.                                                              *)
(***************************************************************************)
EXTENDS FileSystem

CONSTANTS parent, child

VARIABLES test,  \* the phases that are left
          tested \* whether this behaviour is a test, or any calls

testVars == <<test, tested>>

Step(op, s, want) == [op |-> op, path |-> s, want |-> want]
Ok(op, s)  == Step(op, s, {"ok"})
Not(op, s) == Step(op, s, {"failed"})
Try(op, s) == Step(op, s, {"ok", "failed"})
Link(old, new, want) == [op |-> "link", path |-> old, new |-> new, want |-> want]

\* The parent alone, the child alone, and both.
Both(s, t) == <<[p \in {parent, child} |-> IF p = parent THEN s ELSE t]>>
Alone(s)   == Both(s, <<>>)
Child(s)   == Both(<<>>, s)

\* A file is made, maybe written, and closed.
Made(s)    == <<Ok("create", s), Ok("close", <<>>)>>
Written(s) == <<Ok("create", s), Ok("write", <<>>), Ok("close", <<>>)>>

-------------------------------------------------------------------------------
(* The tests *)

iputtest == Alone(<<Ok("mkdir", <<"a">>), Ok("chdir", <<"a">>),
                    Ok("unlink", <<"..", "a">>), Ok("chdir", <<"/">>)>>)

exitiputtest == Child(<<Ok("mkdir", <<"a">>), Ok("chdir", <<"a">>),
                        Ok("unlink", <<"..", "a">>), Ok("exit", <<>>)>>)

\* The pause that the comment asks for is a behaviour of the model.
openiputtest == Alone(<<Ok("mkdir", <<"a">>)>>)
                \o Both(<<Ok("unlink", <<"a">>)>>, <<Not("openw", <<"a">>), Ok("exit", <<>>)>>)

opentest == Alone(<<Ok("open", <<"f">>), Ok("close", <<>>), Not("open", <<"a">>)>>)

createtest == Alone(Made(<<"a">>) \o Made(<<"b">>) \o <<Ok("unlink", <<"a">>), Ok("unlink", <<"b">>)>>)

dirtest == Alone(<<Ok("mkdir", <<"a">>), Ok("chdir", <<"a">>), Ok("chdir", <<"..">>),
                   Ok("unlink", <<"a">>)>>)

fourfiles ==
  LET writes(n) == <<Try("unlink", n), Ok("create", n), Ok("write", <<>>), Ok("write", <<>>), Ok("exit", <<>>)>>
  IN Both(writes(<<"a">>), writes(<<"b">>))

createdelete ==
  LET deletes(n, m) == Made(n) \o Made(m) \o <<Ok("unlink", n)>>
  IN Both(deletes(<<"a">>, <<"b">>), deletes(<<"x">>, <<"xx">>))
     \o Alone(<<Ok("open", <<"b">>), Ok("close", <<>>), Not("open", <<"a">>), Not("open", <<"x">>),
                Try("unlink", <<"b">>), Try("unlink", <<"xx">>)>>)

unlinkread ==
  Alone(Written(<<"a">>) \o <<Ok("openw", <<"a">>), Ok("unlink", <<"a">>)>>)
  \o Child(Written(<<"a">>))
  \o Alone(<<Ok("read", <<>>), Ok("write", <<>>), Ok("close", <<>>), Try("unlink", <<"a">>)>>)

linktest ==
  Alone(<<Try("unlink", <<"a">>), Try("unlink", <<"b">>)>> \o Written(<<"a">>)
        \o <<Link(<<"a">>, <<"b">>, {"ok"}), Try("unlink", <<"a">>), Not("open", <<"a">>),
             Ok("open", <<"b">>), Ok("read", <<>>), Ok("close", <<>>),
             Link(<<"b">>, <<"b">>, {"failed"}), Try("unlink", <<"b">>),
             Link(<<"b">>, <<"a">>, {"failed"}), Link(<<".">>, <<"a">>, {"failed"})>>)

\* The files 1 and 2, which child and parent link to the file 0 that both make.
concreate ==
  LET anyLink(n) == Link(<<"x">>, n, {"ok", "failed"}) IN
  Both(Made(<<"x">>), Made(<<"x">>))
  \o Both(<<anyLink(<<"a">>)>>, Made(<<"a">>)) \o Both(Made(<<"b">>), <<anyLink(<<"b">>)>>)
  \o Both(<<Try("open", <<"a">>), Ok("close", <<>>), Try("open", <<"a">>), Ok("close", <<>>)>>,
          <<Try("unlink", <<"a">>), Try("unlink", <<"a">>)>>)

\* The first steps of the two sequences of pseudo-random numbers.
linkunlink ==
  LET make == <<Try("create", <<"x">>), Ok("close", <<>>)>>
      lnk  == <<Link(<<"f">>, <<"x">>, {"ok", "failed"})>>
  IN Alone(<<Try("unlink", <<"x">>)>>)
     \o Both(make \o <<Try("unlink", <<"x">>)>> \o lnk, make \o lnk \o lnk)

bigdir ==
  Alone(Made(<<"x">>) \o <<Link(<<"x">>, <<"a">>, {"ok"}), Link(<<"x">>, <<"b">>, {"ok"}),
                           Ok("unlink", <<"x">>), Ok("unlink", <<"a">>), Ok("unlink", <<"b">>)>>)

\* The end of subdir(), behind the point where dd/dd/ff is replaced by dd/dd/ffff.
subdirFails ==
  <<Not("open", <<"dd", "dd", "ff">>), Not("create", <<"dd", "ff", "ff">>),
    Not("create", <<"dd", "xx", "ff">>), Not("create", <<"dd">>), Not("openw", <<"dd">>),
    Link(<<"dd", "ff", "ff">>, <<"dd", "dd", "xx">>, {"failed"}),
    Link(<<"dd", "xx", "ff">>, <<"dd", "dd", "xx">>, {"failed"}),
    Link(<<"dd", "ff">>, <<"dd", "dd", "ffff">>, {"failed"}),
    Not("mkdir", <<"dd", "ff", "ff">>), Not("mkdir", <<"dd", "xx", "ff">>),
    Not("mkdir", <<"dd", "dd", "ffff">>), Not("unlink", <<"dd", "xx", "ff">>),
    Not("unlink", <<"dd", "ff", "ff">>), Not("chdir", <<"dd", "ff">>), Not("chdir", <<"dd", "xx">>),
    Ok("unlink", <<"dd", "dd", "ffff">>), Ok("unlink", <<"dd", "ff">>), Not("unlink", <<"dd">>),
    Ok("unlink", <<"dd", "dd">>), Ok("unlink", <<"dd">>)>>

subdir ==
  Alone(<<Try("unlink", <<"ff">>), Ok("mkdir", <<"dd">>)>> \o Written(<<"dd", "ff">>)
        \o <<Not("unlink", <<"dd">>), Ok("mkdir", <<"/", "dd", "dd">>)>> \o Written(<<"dd", "dd", "ff">>)
        \o <<Ok("open", <<"dd", "dd", "..", "ff">>), Ok("read", <<>>), Ok("close", <<>>),
             Link(<<"dd", "dd", "ff">>, <<"dd", "dd", "ffff">>, {"ok"}),
             Ok("unlink", <<"dd", "dd", "ff">>), Not("open", <<"dd", "dd", "ff">>),
             Ok("chdir", <<"dd">>), Ok("chdir", <<"dd", "..", "..", "dd">>),
             Ok("chdir", <<"dd", "..", "..", "..", "dd">>), Ok("chdir", <<".", "..">>),
             Ok("open", <<"dd", "dd", "ffff">>), Ok("read", <<>>), Ok("close", <<>>)>>
        \o subdirFails)

rmdot ==
  Alone(<<Ok("mkdir", <<"a">>), Ok("chdir", <<"a">>), Not("unlink", <<".">>), Not("unlink", <<"..">>),
          Ok("chdir", <<"/">>), Not("unlink", <<"a", ".">>), Not("unlink", <<"a", "..">>),
          Ok("unlink", <<"a">>)>>)

\* Names of 14 and of 15 characters are the same name a, as Strings shows; the directories stay.
fourteen ==
  Alone(<<Ok("mkdir", <<"a">>), Ok("mkdir", <<"a", "a">>), Ok("create", <<"a", "a", "a">>), Ok("close", <<>>),
          Ok("open", <<"a", "a", "a">>), Ok("close", <<>>), Not("mkdir", <<"a", "a">>)>>)

dirfile ==
  Alone(Made(<<"a">>)
        \o <<Not("chdir", <<"a">>), Not("open", <<"a", "xx">>), Not("create", <<"a", "xx">>),
             Not("mkdir", <<"a", "xx">>), Not("unlink", <<"a", "xx">>),
             Link(<<"f">>, <<"a", "xx">>, {"failed"}), Ok("unlink", <<"a">>),
             Not("openw", <<".">>), Ok("open", <<".">>), Not("write", <<>>), Ok("close", <<>>)>>)

\* One round, in which the inode cache would lose an entry to every call of the empty name.
irefRound ==
  <<Ok("mkdir", <<"a">>), Ok("chdir", <<"a">>), Try("mkdir", <<>>),
    Link(<<"f">>, <<>>, {"ok", "failed"}), Try("create", <<>>), Ok("create", <<"xx">>), Ok("close", <<>>),
    Try("unlink", <<"xx">>)>>

\* More rounds than the inode cache has entries.
iref == Alone(irefRound \o irefRound \o irefRound \o irefRound \o irefRound \o irefRound
              \o <<Ok("chdir", <<"/">>)>>)

Tests == {iputtest, exitiputtest, openiputtest, opentest, createtest, dirtest, fourfiles,
          createdelete, unlinkread, linktest, concreate, linkunlink, bigdir, subdir, rmdot, fourteen,
          dirfile, iref}

-------------------------------------------------------------------------------
allVars == <<vars, test, tested>>

AnyInit == Init /\ test = <<>> /\ tested = FALSE

TestInit == InitWith(<<>>, {1}, {0}) /\ test \in Tests /\ tested = TRUE

\* The next call of p; nothing is closed if nothing could be opened.
begins(p) ==
  /\ test # <<>> /\ test[1][p] # <<>>
  /\ pc[p] = "idle"
  /\ test' = [test EXCEPT ![1][p] = Tail(@)]
  /\ LET c == test[1][p][1] IN
     IF c.op = "close" /\ open[p] = 0 THEN UNCHANGED vars ELSE starts(p, c)
  /\ UNCHANGED tested

\* Both processes have come to the end of a phase.
joins ==
  /\ test # <<>> /\ \A p \in Procs : test[1][p] = <<>>
  /\ Quiet
  /\ test' = Tail(test)
  /\ UNCHANGED <<vars, tested>>

\* A test does not run out of files.
goesOn(p) ==
  /\ panicked = "none"
  /\ Continues(p)
  /\ tested /\ pc[p] = "opened" /\ MayOpen(p) => open' # open
  /\ UNCHANGED testVars

TestNext ==
  \/ \E p \in Procs : goesOn(p) \/ (panicked = "none" /\ begins(p))
  \/ joins
  \/ /\ ~tested /\ panicked = "none" /\ ncalls < MaxCalls
     /\ \E p \in Procs, c \in Calls : starts(p, c)
     /\ UNCHANGED testVars

GoOn == [][TestNext]_allVars /\ \A p \in Procs : WF_allVars(goesOn(p))

\* The tests, and any MaxCalls calls on a disk that is nearly full.
TestSpec == (AnyInit \/ TestInit) /\ GoOn
AnySpec  == AnyInit /\ GoOn

-------------------------------------------------------------------------------
(* Properties. *)

\* Every call of a test returns what the test expects of it, in every interleaving of its
\* two processes.
TestsPass ==
  /\ tested => panicked = "none"
  /\ \A p \in Procs :
    /\ tested /\ pc[p] = "failed" => "failed" \in call[p].want
    /\ tested /\ pc[p] \in {"ok", "chdirDone", "closed", "exited"} => "ok" \in call[p].want
-------------------------------------------------------------------------------
(* Values of Calls and Others for TLC. *)

On(ops, paths) == {[op |-> o, path |-> s] : o \in ops, s \in paths}

MCCalls ==
  On({"create", "unlink"}, {<<"/", "d", "f">>}) \cup On({"unlink"}, {<<"f">>})
  \cup On({"mkdir", "unlink", "chdir"}, {<<"/", "d">>})
  \cup On({"open"}, {<<"..">>}) \cup On({"openw"}, {<<"f">>})
  \cup {[op |-> "link", path |-> <<"f">>, new |-> <<"/", "d", "f">>]}
  \cup On({"write", "close", "exit"}, {<<>>})

\* The two calls that may wait for each other.
MCTwoCalls == On({"create", "unlink"}, {<<"/", "d", "f">>})

MCNoOthers == <<>>

\* One inode is left, and blocks for a directory or a file.
MCOthers == <<"a", "b", "x", "xx", "ff", "ffff">>
===============================================================================
