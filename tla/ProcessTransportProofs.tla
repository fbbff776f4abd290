------------------------ MODULE ProcessTransportProofs ------------------------
(***************************************************************************)
(* Theorems about ProcessTransport, for any set of runs, reference workers *)
(* and other programs, and any number of slots.                            *)
(***************************************************************************)
EXTENDS ProcessTransport, FiniteSetTheorems, TLAPS

(* The slot of a run, the release of it, and what may be left of its        *)
(* process: in step with where Run is.                                      *)
Phases ==
  \A r \in Runs :
    /\ run[r].at \in {"idle", "count", "start"}
         => child[r] = "none" /\ waiter[r] = "none" /\ io[r].at = "none"
    /\ run[r].at \notin {"release", "returned"} => releaser[r] = "none"
    /\ run[r].at = "release" => releaser[r] \in {"uncount", "slot"}
    /\ run[r].at = "returned" /\ releaser[r] = "none" => ~Busy(r)
    /\ releaser[r] \in {"uncount", "slot", "done"} => ~Busy(r)
    /\ waiter[r] \in Reaped => child[r] \in Exited
    /\ r \in slots <=> \/ run[r].at \notin {"idle", "returned"}
                       \/ releaser[r] \in {"await", "uncount", "slot"}

CountedRuns == {r \in Runs : Counted(r)}

(* The counter counts, the current channel is open while it is positive,    *)
(* and a waiter's channel is the current one or closed.                     *)
Channels ==
  /\ active = Cardinality(CountedRuns)
  /\ active = 0 <=> idle \in closed
  /\ barrier.at = "waiting" => barrier.chan = idle \/ barrier.chan \in closed

(* Whoever a waiter waits for is counted until its channel is closed.       *)
Awaited ==
  \A r \in barrier.for :
    /\ run[r].at \notin {"idle", "count"}
    /\ r \in slots \/ releaser[r] = "done"
    /\ barrier.at = "passed" \/ barrier.chan \in closed => ~Counted(r)

(* Up to the claim there is no frame behind a result, and after it none can *)
(* come; without an error Run is past a claim and a successful exit.        *)
Clean ==
  \A r \in Runs :
    /\ ~ctx[r].shut /\ io[r].at \notin {"eof", "done"}
         => \/ spoke[r] = "nothing" /\ pipe[r].out # "result"
            \/ spoke[r] = "result" /\ pipe[r].out = "result"
    /\ ~ctx[r].shut /\ io[r].at = "eof"
         => \/ spoke[r] = "result" /\ pipe[r].out = "empty"
            \/ spoke[r] = "more" /\ pipe[r].out # "empty"
    /\ io[r].claim => io[r].at = "done" /\ spoke[r] = "result" /\ ~pipe[r].open
    /\ waiter[r] = "ok" => child[r] = "succeeded"
    /\ ctx[r].shut => run[r].at \in {"cleanup", "release", "returned"}
    /\ run[r].at = "exit" => io[r].claim
    /\ run[r].at \in {"stop", "cleanup", "release", "returned"} /\ ~run[r].err
         => io[r].claim /\ waiter[r] = "ok"
    /\ run[r].at \in {"cleanup", "release", "returned"} /\ ~run[r].err
         => ~ctx[r].over

IInv == TypeOK /\ Phases /\ Channels /\ Awaited /\ Clean

-----------------------------------------------------------------------------
(* The steps of the world around Run leave what Run and release() share.    *)
Outside(r) ==
  \/ Io(r) \/ Wait(r) \/ Serve(r) \/ Kill(r)
  \/ RogueStep(r) \/ RogueCloses(r) \/ Overflow(r) \/ CtxEnds(r)

(* None of those steps touches them.                                        *)
LEMMA OutsideKeepsMain ==
  ASSUME NEW r \in Runs, Outside(r)
  PROVE  UNCHANGED <<run, slots, active, idle, closed, releaser, barrier>>
BY DEF Outside, Io, Wait, Serve, WriteJob, WriteContinue, WriteFrame, ReadEof, IoFails,
       ReadFrame, BeatAnswered, WaitReturns, ReadJob, SendHeartbeat, ReadContinue,
       SendAnswer, ServeReturns, ServeFails, Kill, RogueStep, RogueCloses, Overflow,
       CtxEnds, ChildVars, mainVars

(* Nothing has begun.                                                       *)
LEMMA InitInvariant == Init => IInv
<1>. SUFFICES ASSUME Init PROVE IInv
  OBVIOUS
<1>1. TypeOK
  BY FS_EmptySet, TransportAssumption DEF Init, TypeOK, NoPipe
<1>2. Phases
  BY DEF Init, Phases, Busy, Living, Reaped
<1>3. Channels
  <2>1. CountedRuns = {}
    BY DEF Init, CountedRuns, Counted
  <2>. QED
    BY <2>1, FS_EmptySet DEF Init, Channels
<1>4. Awaited
  BY DEF Init, Awaited
<1>5. Clean
  BY DEF Init, Clean, NoPipe
<1>. QED
  BY <1>1, <1>2, <1>3, <1>4, <1>5 DEF IInv

(* Phases: work begins with Start, and ends before release().               *)
LEMMA PhasesStep ==
  ASSUME IInv, [Next]_vars
  PROVE  Phases'
<1>1. ASSUME NEW r \in Runs, Refuse(r) PROVE Phases'
  BY <1>1 DEF Refuse, Goto, At, IInv, TypeOK, Phases, Busy, Living, Exited,
       Reaped, AllDone, mainVars
<1>2. ASSUME NEW r \in Runs, TakeSlot(r) PROVE Phases'
  BY <1>2 DEF TakeSlot, Goto, At, IInv, TypeOK, Phases, Busy, Living, Exited,
       Reaped, AllDone, mainVars
<1>3. ASSUME NEW r \in Runs, Count(r) PROVE Phases'
  BY <1>3 DEF Count, Goto, At, IInv, TypeOK, Phases, Busy, Living, Exited,
       Reaped, AllDone, mainVars
<1>4. ASSUME NEW r \in Runs, StartFails(r) PROVE Phases'
  BY <1>4 DEF StartFails, Goto, At, IInv, TypeOK, Phases, Busy, Living,
       Exited, Reaped, AllDone, mainVars
<1>5. ASSUME NEW r \in Runs, Start(r) PROVE Phases'
  BY <1>5 DEF Start, Goto, At, IInv, TypeOK, Phases, Busy, Living, Exited,
       Reaped, AllDone, mainVars
<1>6. ASSUME NEW r \in Runs, ExchangeEnds(r) PROVE Phases'
  BY <1>6 DEF ExchangeEnds, Goto, At, IoAt, IInv, TypeOK, Phases, Busy,
       Living, Exited, Reaped, AllDone, mainVars
<1>7. ASSUME NEW r \in Runs, ExitSeen(r) PROVE Phases'
  BY <1>7 DEF ExitSeen, Goto, At, IInv, TypeOK, Phases, Busy, Living, Exited,
       Reaped, AllDone, mainVars
<1>8. ASSUME NEW r \in Runs, CtxSeen(r) PROVE Phases'
  BY <1>8 DEF CtxSeen, Goto, At, IInv, TypeOK, Phases, Busy, Living, Exited,
       Reaped, AllDone, mainVars
<1>9. ASSUME NEW r \in Runs, Stop(r) PROVE Phases'
  BY <1>9 DEF Stop, Goto, At, IInv, TypeOK, Phases, Busy, Living, Exited,
       Reaped, AllDone, mainVars
<1>10. ASSUME NEW r \in Runs, Cleaned(r) PROVE Phases'
  BY <1>10 DEF Cleaned, Goto, At, IInv, TypeOK, Phases, Busy, Living, Exited,
       Reaped, AllDone, mainVars
<1>11. ASSUME NEW r \in Runs, CleanupExpires(r) PROVE Phases'
  BY <1>11 DEF CleanupExpires, Goto, At, IInv, TypeOK, Phases, Busy, Living,
       Exited, Reaped, AllDone, mainVars
<1>12. ASSUME NEW r \in Runs, ReleaserWakes(r) PROVE Phases'
  BY <1>12 DEF ReleaserWakes, At, IInv, TypeOK, Phases, Busy, Living, Exited,
       Reaped, AllDone, mainVars
<1>13. ASSUME NEW r \in Runs, Uncount(r) PROVE Phases'
  BY <1>13 DEF Uncount, At, IInv, TypeOK, Phases, Busy, Living, Exited,
       Reaped, AllDone, mainVars
<1>14. ASSUME NEW r \in Runs, FreeSlot(r) PROVE Phases'
  BY <1>14 DEF FreeSlot, Goto, At, IInv, TypeOK, Phases, Busy, Living, Exited,
       Reaped, AllDone, mainVars
<1>15. ASSUME NEW r \in Runs, WriteJob(r) PROVE Phases'
  BY <1>15 DEF WriteJob, WriteFrame, IoGoto, IoAt, IInv, TypeOK, Phases, Busy,
       Living, Exited, Reaped, AllDone, mainVars
<1>16. ASSUME NEW r \in Runs, WriteContinue(r) PROVE Phases'
  BY <1>16 DEF WriteContinue, WriteFrame, IoGoto, IoAt, IInv, TypeOK, Phases,
       Busy, Living, Exited, Reaped, AllDone, mainVars
<1>17. ASSUME NEW r \in Runs, ReadEof(r) PROVE Phases'
  BY <1>17 DEF ReadEof, IoAt, IInv, TypeOK, Phases, Busy, Living, Exited,
       Reaped, AllDone, mainVars
<1>18. ASSUME NEW r \in Runs, IoFails(r) PROVE Phases'
  BY <1>18 DEF IoFails, IoGoto, IoAt, IInv, TypeOK, Phases, Busy, Living,
       Exited, Reaped, AllDone, mainVars
<1>19. ASSUME NEW r \in Runs, NEW fits \in BOOLEAN, ReadFrame(r, fits)
      PROVE  Phases'
  BY <1>19 DEF ReadFrame, IoAt, IInv, TypeOK, Phases, Busy, Living, Exited,
       Reaped, AllDone, mainVars
<1>20. ASSUME NEW r \in Runs, NEW accepted \in BOOLEAN, BeatAnswered(r, accepted)
      PROVE  Phases'
  BY <1>20 DEF BeatAnswered, IoGoto, IoAt, IInv, TypeOK, Phases, Busy, Living,
       Exited, Reaped, AllDone, mainVars
<1>21. ASSUME NEW r \in Runs, NEW ok \in BOOLEAN, WaitReturns(r, ok)
      PROVE  Phases'
  BY <1>21 DEF WaitReturns, IInv, TypeOK, Phases, Busy, Living, Exited,
       Reaped, AllDone, mainVars
<1>22. ASSUME NEW r \in Runs, ReadJob(r) PROVE Phases'
  BY <1>22 DEF ReadJob, ChildVars, IInv, TypeOK, Phases, Busy, Living, Exited,
       Reaped, AllDone, mainVars
<1>23. ASSUME NEW r \in Runs, SendHeartbeat(r) PROVE Phases'
  BY <1>23 DEF SendHeartbeat, ChildVars, IInv, TypeOK, Phases, Busy, Living,
       Exited, Reaped, AllDone, mainVars
<1>24. ASSUME NEW r \in Runs, ReadContinue(r) PROVE Phases'
  BY <1>24 DEF ReadContinue, ChildVars, IInv, TypeOK, Phases, Busy, Living,
       Exited, Reaped, AllDone, mainVars
<1>25. ASSUME NEW r \in Runs, NEW kind \in {"result", "error"}, SendAnswer(r, kind)
      PROVE  Phases'
  BY <1>25 DEF SendAnswer, ChildVars, IInv, TypeOK, Phases, Busy, Living,
       Exited, Reaped, AllDone, mainVars
<1>26. ASSUME NEW r \in Runs, ServeReturns(r) PROVE Phases'
  BY <1>26 DEF ServeReturns, ChildVars, IInv, TypeOK, Phases, Busy, Living,
       Exited, Reaped, AllDone, mainVars
<1>27. ASSUME NEW r \in Runs, ServeFails(r) PROVE Phases'
  BY <1>27 DEF ServeFails, ChildVars, IInv, TypeOK, Phases, Busy, Living,
       Exited, Reaped, AllDone, mainVars
<1>28. ASSUME NEW r \in Runs, Kill(r) PROVE Phases'
  BY <1>28 DEF Kill, ChildVars, IInv, TypeOK, Phases, Busy, Living, Exited,
       Reaped, AllDone, mainVars
<1>29. ASSUME NEW r \in Runs, RogueStep(r) PROVE Phases'
  BY <1>29 DEF RogueStep, ChildVars, IInv, TypeOK, Phases, Busy, Living,
       Exited, Reaped, AllDone, mainVars
<1>30. ASSUME NEW r \in Runs, RogueCloses(r) PROVE Phases'
  BY <1>30 DEF RogueCloses, ChildVars, IInv, TypeOK, Phases, Busy, Living,
       Exited, Reaped, AllDone, mainVars
<1>31. ASSUME NEW r \in Runs, Overflow(r) PROVE Phases'
  BY <1>31 DEF Overflow, IInv, TypeOK, Phases, Busy, Living, Exited, Reaped,
       AllDone, mainVars
<1>32. ASSUME NEW r \in Runs, CtxEnds(r) PROVE Phases'
  BY <1>32 DEF CtxEnds, IInv, TypeOK, Phases, Busy, Living, Exited, Reaped,
       AllDone, mainVars
<1>33. ASSUME WaitBegins PROVE Phases'
  BY <1>33 DEF WaitBegins, IInv, TypeOK, Phases, Busy, Living, Exited, Reaped,
       AllDone, mainVars
<1>34. ASSUME WaitEnds PROVE Phases'
  BY <1>34 DEF WaitEnds, IInv, TypeOK, Phases, Busy, Living, Exited, Reaped,
       AllDone, mainVars
<1>35. ASSUME UNCHANGED vars PROVE Phases'
  BY <1>35 DEF vars, IInv, TypeOK, Phases, Busy, Living, Exited, Reaped,
       AllDone, mainVars
<1>. QED
  BY <1>1, <1>2, <1>3, <1>4, <1>5, <1>6, <1>7, <1>8, <1>9, <1>10,
       <1>11, <1>12, <1>13, <1>14, <1>15, <1>16, <1>17, <1>18, <1>19, <1>20,
       <1>21, <1>22, <1>23, <1>24, <1>25, <1>26, <1>27, <1>28, <1>29, <1>30,
       <1>31, <1>32, <1>33, <1>34, <1>35
  DEF Next, Main, Io, Wait, Release, Serve

(* Clean: the frames of a run, its claim and its answer.                    *)
LEMMA CleanStep ==
  ASSUME IInv, [Next]_vars
  PROVE  Clean'
<1>1. ASSUME NEW r \in Runs, Refuse(r) PROVE Clean'
  BY <1>1 DEF Refuse, Goto, At, IInv, TypeOK, Phases, Clean, NoPipe, Frames,
       Reaped, Living, Exited, mainVars
<1>2. ASSUME NEW r \in Runs, TakeSlot(r) PROVE Clean'
  BY <1>2 DEF TakeSlot, Goto, At, IInv, TypeOK, Phases, Clean, NoPipe, Frames,
       Reaped, Living, Exited, mainVars
<1>3. ASSUME NEW r \in Runs, Count(r) PROVE Clean'
  BY <1>3 DEF Count, Goto, At, IInv, TypeOK, Phases, Clean, NoPipe, Frames,
       Reaped, Living, Exited, mainVars
<1>4. ASSUME NEW r \in Runs, StartFails(r) PROVE Clean'
  BY <1>4 DEF StartFails, Goto, At, IInv, TypeOK, Phases, Clean, NoPipe,
       Frames, Reaped, Living, Exited, mainVars
<1>5. ASSUME NEW r \in Runs, Start(r) PROVE Clean'
  BY <1>5 DEF Start, Goto, At, IInv, TypeOK, Phases, Clean, NoPipe, Frames,
       Reaped, Living, Exited, mainVars
<1>6. ASSUME NEW r \in Runs, ExchangeEnds(r) PROVE Clean'
  <2>1. CASE io[r].claim
    <3>1. io[r].claim = TRUE
      BY <2>1 DEF IInv, TypeOK
    <3>2. run' = [run EXCEPT ![r] = [at |-> "exit", err |-> FALSE]]
      BY <1>6, <3>1 DEF ExchangeEnds, Goto
    <3>. QED
      BY <1>6, <2>1, <3>2
      DEF ExchangeEnds, At, IoAt, IInv, TypeOK, Clean
  <2>2. CASE ~io[r].claim
    <3>1. io[r].claim = FALSE
      BY <2>2 DEF IInv, TypeOK
    <3>2. run' = [run EXCEPT ![r] = [at |-> "stop", err |-> TRUE]]
      BY <1>6, <3>1 DEF ExchangeEnds, Goto
    <3>. QED
      BY <1>6, <3>2
      DEF ExchangeEnds, At, IoAt, IInv, TypeOK, Clean
  <2>. QED
    BY <2>1, <2>2
<1>7. ASSUME NEW r \in Runs, ExitSeen(r) PROVE Clean'
  BY <1>7 DEF ExitSeen, Goto, At, IInv, TypeOK, Phases, Clean, NoPipe, Frames,
       Reaped, Living, Exited, mainVars
<1>8. ASSUME NEW r \in Runs, CtxSeen(r) PROVE Clean'
  BY <1>8 DEF CtxSeen, Goto, At, IInv, TypeOK, Phases, Clean, NoPipe, Frames,
       Reaped, Living, Exited, mainVars
<1>9. ASSUME NEW r \in Runs, Stop(r) PROVE Clean'
  BY <1>9 DEF Stop, Goto, At, IInv, TypeOK, Phases, Clean, NoPipe, Frames,
       Reaped, Living, Exited, mainVars
<1>10. ASSUME NEW r \in Runs, Cleaned(r) PROVE Clean'
  BY <1>10 DEF Cleaned, Goto, At, IInv, TypeOK, Phases, Clean, NoPipe, Frames,
       Reaped, Living, Exited, mainVars
<1>11. ASSUME NEW r \in Runs, CleanupExpires(r) PROVE Clean'
  BY <1>11 DEF CleanupExpires, Goto, At, IInv, TypeOK, Phases, Clean, NoPipe,
       Frames, Reaped, Living, Exited, mainVars
<1>12. ASSUME NEW r \in Runs, ReleaserWakes(r) PROVE Clean'
  BY <1>12 DEF ReleaserWakes, At, IInv, TypeOK, Phases, Clean, NoPipe, Frames,
       Reaped, Living, Exited, mainVars
<1>13. ASSUME NEW r \in Runs, Uncount(r) PROVE Clean'
  BY <1>13 DEF Uncount, At, IInv, TypeOK, Phases, Clean, NoPipe, Frames,
       Reaped, Living, Exited, mainVars
<1>14. ASSUME NEW r \in Runs, FreeSlot(r) PROVE Clean'
  <2>1. CASE At(r, "release")
    <3>1. run' = [run EXCEPT ![r] = [at |-> "returned", err |-> run[r].err]]
      BY <1>14, <2>1 DEF FreeSlot, Goto
    <3>. QED
      BY <1>14, <2>1, <3>1 DEF FreeSlot, At, IInv, TypeOK, Clean
  <2>2. CASE ~At(r, "release")
    <3>1. UNCHANGED run
      BY <1>14, <2>2 DEF FreeSlot
    <3>. QED
      BY <1>14, <3>1 DEF FreeSlot, IInv, TypeOK, Clean
  <2>. QED
    BY <2>1, <2>2
<1>15. ASSUME NEW r \in Runs, WriteJob(r) PROVE Clean'
  BY <1>15 DEF WriteJob, WriteFrame, IoGoto, IoAt, IInv, TypeOK, Phases,
       Clean, NoPipe, Frames, Reaped, Living, Exited, mainVars
<1>16. ASSUME NEW r \in Runs, WriteContinue(r) PROVE Clean'
  BY <1>16 DEF WriteContinue, WriteFrame, IoGoto, IoAt, IInv, TypeOK, Phases,
       Clean, NoPipe, Frames, Reaped, Living, Exited, mainVars
<1>17. ASSUME NEW r \in Runs, ReadEof(r) PROVE Clean'
  BY <1>17 DEF ReadEof, IoAt, IInv, TypeOK, Phases, Clean, NoPipe, Frames,
       Reaped, Living, Exited, mainVars
<1>18. ASSUME NEW r \in Runs, IoFails(r) PROVE Clean'
  BY <1>18 DEF IoFails, IoGoto, IoAt, IInv, TypeOK, Phases, Clean, NoPipe,
       Frames, Reaped, Living, Exited, mainVars
<1>19. ASSUME NEW r \in Runs, NEW fits \in BOOLEAN, ReadFrame(r, fits)
      PROVE  Clean'
  BY <1>19 DEF ReadFrame, IoAt, IInv, TypeOK, Phases, Clean, NoPipe, Frames,
       Reaped, Living, Exited, mainVars
<1>20. ASSUME NEW r \in Runs, NEW accepted \in BOOLEAN, BeatAnswered(r, accepted)
      PROVE  Clean'
  BY <1>20 DEF BeatAnswered, IoGoto, IoAt, IInv, TypeOK, Phases, Clean,
       NoPipe, Frames, Reaped, Living, Exited, mainVars
<1>21. ASSUME NEW r \in Runs, NEW ok \in BOOLEAN, WaitReturns(r, ok) PROVE Clean'
  BY <1>21 DEF WaitReturns, IInv, TypeOK, Phases, Clean, NoPipe, Frames,
       Reaped, Living, Exited, mainVars
<1>22. ASSUME NEW r \in Runs, ReadJob(r) PROVE Clean'
  BY <1>22 DEF ReadJob, ChildVars, IInv, TypeOK, Phases, Clean, NoPipe,
       Frames, Reaped, Living, Exited, mainVars
<1>23. ASSUME NEW r \in Runs, SendHeartbeat(r) PROVE Clean'
  BY <1>23 DEF SendHeartbeat, ChildVars, IInv, TypeOK, Phases, Clean, NoPipe,
       Frames, Reaped, Living, Exited, mainVars
<1>24. ASSUME NEW r \in Runs, ReadContinue(r) PROVE Clean'
  BY <1>24 DEF ReadContinue, ChildVars, IInv, TypeOK, Phases, Clean, NoPipe,
       Frames, Reaped, Living, Exited, mainVars
<1>25. ASSUME NEW r \in Runs, NEW kind \in {"result", "error"}, SendAnswer(r, kind)
      PROVE  Clean'
  BY <1>25 DEF SendAnswer, ChildVars, IInv, TypeOK, Phases, Clean, NoPipe,
       Frames, Reaped, Living, Exited, mainVars
<1>26. ASSUME NEW r \in Runs, ServeReturns(r) PROVE Clean'
  BY <1>26 DEF ServeReturns, ChildVars, IInv, TypeOK, Phases, Clean, NoPipe,
       Frames, Reaped, Living, Exited, mainVars
<1>27. ASSUME NEW r \in Runs, ServeFails(r) PROVE Clean'
  BY <1>27 DEF ServeFails, ChildVars, IInv, TypeOK, Phases, Clean, NoPipe,
       Frames, Reaped, Living, Exited, mainVars
<1>28. ASSUME NEW r \in Runs, Kill(r) PROVE Clean'
  BY <1>28 DEF Kill, ChildVars, IInv, TypeOK, Phases, Clean, NoPipe, Frames,
       Reaped, Living, Exited, mainVars
<1>29. ASSUME NEW r \in Runs, RogueStep(r) PROVE Clean'
  BY <1>29 DEF RogueStep, ChildVars, IInv, TypeOK, Phases, Clean, NoPipe,
       Frames, Reaped, Living, Exited, mainVars
<1>30. ASSUME NEW r \in Runs, RogueCloses(r) PROVE Clean'
  BY <1>30 DEF RogueCloses, ChildVars, IInv, TypeOK, Phases, Clean, NoPipe,
       Frames, Reaped, Living, Exited, mainVars
<1>31. ASSUME NEW r \in Runs, Overflow(r) PROVE Clean'
  BY <1>31 DEF Overflow, IInv, TypeOK, Phases, Clean, NoPipe, Frames, Reaped,
       Living, Exited, mainVars
<1>32. ASSUME NEW r \in Runs, CtxEnds(r) PROVE Clean'
  BY <1>32 DEF CtxEnds, IInv, TypeOK, Phases, Clean, NoPipe, Frames, Reaped,
       Living, Exited, mainVars
<1>33. ASSUME WaitBegins PROVE Clean'
  BY <1>33 DEF WaitBegins, IInv, TypeOK, Phases, Clean, NoPipe, Frames,
       Reaped, Living, Exited, mainVars
<1>34. ASSUME WaitEnds PROVE Clean'
  BY <1>34 DEF WaitEnds, IInv, TypeOK, Phases, Clean, NoPipe, Frames, Reaped,
       Living, Exited, mainVars
<1>35. ASSUME UNCHANGED vars PROVE Clean'
  BY <1>35 DEF vars, IInv, TypeOK, Phases, Clean, NoPipe, Frames, Reaped,
       Living, Exited, mainVars
<1>. QED
  BY <1>1, <1>2, <1>3, <1>4, <1>5, <1>6, <1>7, <1>8, <1>9, <1>10,
       <1>11, <1>12, <1>13, <1>14, <1>15, <1>16, <1>17, <1>18, <1>19, <1>20,
       <1>21, <1>22, <1>23, <1>24, <1>25, <1>26, <1>27, <1>28, <1>29, <1>30,
       <1>31, <1>32, <1>33, <1>34, <1>35
  DEF Next, Main, Io, Wait, Release, Serve

(* Who is counted changes with Count and Uncount only.                      *)
LEMMA CountAdds ==
  ASSUME IInv, NEW r \in Runs, Count(r)
  PROVE  /\ CountedRuns' = CountedRuns \cup {r}
         /\ r \notin CountedRuns
<1>1. r \notin CountedRuns /\ r \in slots /\ releaser[r] = "none"
  BY DEF Count, At, CountedRuns, Counted, IInv, Phases
<1>. QED
  BY <1>1 DEF Count, At, Goto, CountedRuns, Counted, IInv, TypeOK

(* Who is uncounted was counted, so the counter stays above zero.           *)
LEMMA UncountRemoves ==
  ASSUME IInv, NEW r \in Runs, Uncount(r)
  PROVE  /\ CountedRuns' = CountedRuns \ {r}
         /\ r \in CountedRuns
BY DEF Uncount, CountedRuns, Counted, IInv, Phases, TypeOK

(* Every other step of Run, of release() or of the outside.                 *)
LEMMA SameCount ==
  ASSUME IInv, NEW r \in Runs,
         \/ Refuse(r) \/ TakeSlot(r) \/ StartFails(r) \/ Start(r) \/ ExchangeEnds(r)
         \/ ExitSeen(r) \/ CtxSeen(r) \/ Stop(r) \/ Cleaned(r) \/ CleanupExpires(r)
         \/ ReleaserWakes(r) \/ FreeSlot(r) \/ Outside(r)
  PROVE  /\ CountedRuns' = CountedRuns
         /\ UNCHANGED <<active, idle, closed, barrier>>
<1>1. CASE Refuse(r)
  <2>1. r \notin slots /\ run'[r].at = "returned"
    BY <1>1 DEF Refuse, Goto, At, IInv, TypeOK, Phases
  <2>2. \A q \in Runs \ {r} : run'[q] = run[q]
    BY <1>1 DEF Refuse, Goto, IInv, TypeOK
  <2>. QED
    BY <1>1, <2>1, <2>2 DEF Refuse, CountedRuns, Counted
<1>2. CASE TakeSlot(r)
  BY <1>2 DEF TakeSlot, Goto, At, CountedRuns, Counted, IInv, TypeOK, Phases
<1>3. CASE StartFails(r)
  BY <1>3 DEF StartFails, Goto, At, CountedRuns, Counted, IInv, TypeOK, Phases
<1>4. CASE Start(r)
  BY <1>4 DEF Start, Goto, At, CountedRuns, Counted, IInv, TypeOK, Phases
<1>5. CASE ExchangeEnds(r)
  BY <1>5 DEF ExchangeEnds, Goto, At, IoAt, CountedRuns, Counted, IInv,
       TypeOK, Phases
<1>6. CASE ExitSeen(r)
  BY <1>6 DEF ExitSeen, Goto, At, CountedRuns, Counted, IInv, TypeOK, Phases
<1>7. CASE CtxSeen(r)
  BY <1>7 DEF CtxSeen, Goto, At, CountedRuns, Counted, IInv, TypeOK, Phases
<1>8. CASE Stop(r)
  BY <1>8 DEF Stop, Goto, At, CountedRuns, Counted, IInv, TypeOK, Phases
<1>9. CASE Cleaned(r)
  BY <1>9 DEF Cleaned, Goto, At, CountedRuns, Counted, IInv, TypeOK, Phases
<1>10. CASE CleanupExpires(r)
  BY <1>10 DEF CleanupExpires, Goto, At, CountedRuns, Counted, IInv, TypeOK,
       Phases
<1>11. CASE ReleaserWakes(r)
  BY <1>11 DEF ReleaserWakes, At, CountedRuns, Counted, IInv, TypeOK, Phases
<1>12. CASE FreeSlot(r)
  BY <1>12 DEF FreeSlot, Goto, At, CountedRuns, Counted, IInv, TypeOK, Phases
<1>13. CASE Outside(r)
  BY <1>13, OutsideKeepsMain DEF CountedRuns, Counted
<1>. QED
  BY <1>1, <1>2, <1>3, <1>4, <1>5, <1>6, <1>7, <1>8, <1>9, <1>10,
       <1>11, <1>12, <1>13

(* The counted runs are some of those that hold a slot.                     *)
LEMMA CountedFinite ==
  ASSUME IInv
  PROVE  /\ IsFiniteSet(CountedRuns)
         /\ CountedRuns \subseteq slots
         /\ IsFiniteSet(slots)
         /\ Cardinality(CountedRuns) \in Nat
         /\ Cardinality(slots) \in Nat
         /\ Cardinality(CountedRuns) <= Cardinality(slots)
<1>1. CountedRuns \subseteq slots /\ slots \subseteq Runs
  BY DEF CountedRuns, Counted, IInv, TypeOK
<1>2. IsFiniteSet(slots)
  BY <1>1, FS_Subset, TransportAssumption
<1>. QED
  BY <1>1, <1>2, FS_Subset, FS_CardinalityType

(* Channels: the count and the idle channel change together, under mu.      *)
LEMMA ChannelsStep ==
  ASSUME IInv, [Next]_vars
  PROVE  Channels'
<1>1. ASSUME NEW r \in Runs, Count(r) PROVE Channels'
  <2>1. active' = Cardinality(CountedRuns') /\ active \in Nat
    BY <1>1, CountAdds, CountedFinite, FS_AddElement DEF Count, IInv, Channels
  <2>2. idle + 1 \notin closed /\ idle \in Nat
    BY DEF IInv, TypeOK
  <2>3. active' # 0 /\ UNCHANGED <<closed, barrier>>
    BY <1>1, <2>1 DEF Count
  <2>4. idle' \notin closed'
    BY <1>1, <2>1, <2>2 DEF Count, IInv, Channels
  <2>5. barrier.at = "waiting" => barrier.chan = idle' \/ barrier.chan \in closed
    BY <1>1, <2>1 DEF Count, IInv, Channels
  <2>. QED
    BY <2>1, <2>3, <2>4, <2>5 DEF Channels
<1>2. ASSUME NEW r \in Runs, Uncount(r) PROVE Channels'
  <2>1. active' = Cardinality(CountedRuns') /\ active \in Nat /\ active # 0
    <3>1. CountedRuns # {} /\ Cardinality(CountedRuns') = Cardinality(CountedRuns) - 1
      BY <1>2, UncountRemoves, CountedFinite, FS_RemoveElement
    <3>2. Cardinality(CountedRuns) # 0
      BY <3>1, CountedFinite, FS_EmptySet
    <3>. QED
      BY <1>2, <3>1, <3>2, CountedFinite DEF Uncount, IInv, Channels
  <2>. QED
    BY <1>2, <2>1 DEF Uncount, IInv, Channels, TypeOK
<1>3. ASSUME NEW r \in Runs,
             \/ Refuse(r) \/ TakeSlot(r) \/ StartFails(r) \/ Start(r) \/ ExchangeEnds(r)
             \/ ExitSeen(r) \/ CtxSeen(r) \/ Stop(r) \/ Cleaned(r) \/ CleanupExpires(r)
             \/ ReleaserWakes(r) \/ FreeSlot(r) \/ Outside(r)
      PROVE  Channels'
  BY <1>3, SameCount DEF IInv, Channels
<1>4. ASSUME WaitBegins PROVE Channels'
  BY <1>4 DEF WaitBegins, IInv, Channels, CountedRuns, Counted, mainVars
<1>5. ASSUME WaitEnds PROVE Channels'
  BY <1>5 DEF WaitEnds, IInv, Channels, CountedRuns, Counted, mainVars, TypeOK
<1>6. ASSUME UNCHANGED vars PROVE Channels'
  BY <1>6 DEF vars, mainVars, IInv, Channels, CountedRuns, Counted
<1>. QED
  BY <1>1, <1>2, <1>3, <1>4, <1>5, <1>6 DEF Next, Main, Release, Outside

(* When the counter gets to zero, nobody is counted.                        *)
LEMMA NobodyCounted ==
  ASSUME IInv, [Next]_vars, active' = 0
  PROVE  CountedRuns' = {}
<1>1. Channels' /\ IsFiniteSet(Runs)
  BY ChannelsStep, TransportAssumption
<1>2. CountedRuns' \subseteq Runs
  BY DEF CountedRuns
<1>3. IsFiniteSet(CountedRuns')
  BY <1>1, <1>2, FS_Subset
<1>. QED
  BY <1>1, <1>3, FS_EmptySet DEF Channels

(* Awaited: the counted runs of a waiter are gone when its channel closes.  *)
LEMMA AwaitedStep ==
  ASSUME IInv, [Next]_vars
  PROVE  Awaited'
<1>1. ASSUME NEW r \in Runs, Refuse(r) PROVE Awaited'
  BY <1>1 DEF Refuse, Goto, At, IInv, TypeOK, Phases, Awaited, Counted
<1>2. ASSUME NEW r \in Runs, TakeSlot(r) PROVE Awaited'
  BY <1>2 DEF TakeSlot, Goto, At, IInv, TypeOK, Phases, Awaited, Counted
<1>3. ASSUME NEW r \in Runs, Count(r) PROVE Awaited'
  BY <1>3 DEF Count, Goto, At, IInv, TypeOK, Phases, Awaited, Counted
<1>4. ASSUME NEW r \in Runs, StartFails(r) PROVE Awaited'
  <2>1. \A q \in Runs : Counted(q)' = Counted(q)
    BY <1>4, SameCount DEF CountedRuns, Counted
  <2>2. \A q \in barrier.for : /\ run'[q].at \notin {"idle", "count"}
                               /\ releaser'[q] = "done" <=> releaser[q] = "done"
    BY <1>4 DEF StartFails, Goto, At, IInv, TypeOK, Phases, Awaited
  <2>. QED
    BY <1>4, <2>1, <2>2 DEF StartFails, IInv, TypeOK, Awaited
<1>5. ASSUME NEW r \in Runs, Start(r) PROVE Awaited'
  BY <1>5 DEF Start, Goto, At, IInv, TypeOK, Phases, Awaited, Counted
<1>6. ASSUME NEW r \in Runs, ExchangeEnds(r) PROVE Awaited'
  BY <1>6 DEF ExchangeEnds, Goto, At, IoAt, IInv, TypeOK, Phases, Awaited,
       Counted
<1>7. ASSUME NEW r \in Runs, ExitSeen(r) PROVE Awaited'
  BY <1>7 DEF ExitSeen, Goto, At, IInv, TypeOK, Phases, Awaited, Counted
<1>8. ASSUME NEW r \in Runs, CtxSeen(r) PROVE Awaited'
  BY <1>8 DEF CtxSeen, Goto, At, IInv, TypeOK, Phases, Awaited, Counted
<1>9. ASSUME NEW r \in Runs, Stop(r) PROVE Awaited'
  BY <1>9 DEF Stop, Goto, At, IInv, TypeOK, Phases, Awaited, Counted
<1>10. ASSUME NEW r \in Runs, Cleaned(r) PROVE Awaited'
  BY <1>10 DEF Cleaned, Goto, At, IInv, TypeOK, Phases, Awaited, Counted
<1>11. ASSUME NEW r \in Runs, CleanupExpires(r) PROVE Awaited'
  <2>1. \A q \in Runs : Counted(q)' = Counted(q)
    BY <1>11, SameCount DEF CountedRuns, Counted
  <2>2. \A q \in barrier.for : /\ run'[q].at \notin {"idle", "count"}
                               /\ releaser'[q] = "done" <=> releaser[q] = "done"
    BY <1>11 DEF CleanupExpires, Goto, At, IInv, TypeOK, Phases, Awaited
  <2>. QED
    BY <1>11, <2>1, <2>2 DEF CleanupExpires, IInv, TypeOK, Awaited
<1>12. ASSUME NEW r \in Runs, ReleaserWakes(r) PROVE Awaited'
  BY <1>12 DEF ReleaserWakes, At, IInv, TypeOK, Phases, Awaited, Counted
<1>13. ASSUME NEW r \in Runs, Uncount(r) PROVE Awaited'
  <2>1. UNCHANGED <<run, slots, idle, barrier>> /\ closed \subseteq closed'
    BY <1>13 DEF Uncount
  <2>2. ASSUME NEW q \in barrier.for, Counted(q)' PROVE Counted(q)
    BY <1>13, <2>1, <2>2 DEF Uncount, Counted, IInv, TypeOK
  <2>3. ASSUME NEW q \in barrier.for,
               barrier.at = "passed" \/ barrier.chan \in closed'
        PROVE  ~Counted(q)'
    <3>1. CASE barrier.at = "passed" \/ barrier.chan \in closed
      BY <2>2, <3>1 DEF IInv, Awaited
    <3>2. CASE barrier.chan \notin closed /\ barrier.chan \in closed'
      <4>1. active' = 0
        BY <1>13, <3>2 DEF Uncount
      <4>2. CountedRuns' = {} /\ barrier.for \subseteq Runs
        BY <4>1, NobodyCounted DEF IInv, TypeOK
      <4>. QED
        BY <4>2 DEF CountedRuns
    <3>. QED
      BY <2>3, <3>1, <3>2
  <2>4. ASSUME NEW q \in barrier.for
        PROVE  /\ run[q].at \notin {"idle", "count"}
               /\ q \in slots \/ releaser'[q] = "done"
    BY <1>13, <2>1 DEF Uncount, IInv, TypeOK, Phases, Awaited
  <2>. QED
    BY <2>1, <2>3, <2>4 DEF Awaited
<1>14. ASSUME NEW r \in Runs, FreeSlot(r) PROVE Awaited'
  BY <1>14 DEF FreeSlot, Goto, At, IInv, TypeOK, Phases, Awaited, Counted
<1>15. ASSUME NEW r \in Runs, Outside(r) PROVE Awaited'
  BY <1>15, OutsideKeepsMain DEF IInv, Awaited, Counted
<1>16. ASSUME WaitBegins PROVE Awaited'
  <2>1. idle \in closed => CountedRuns = {}
    BY CountedFinite, FS_EmptySet DEF IInv, Channels
  <2>. QED
    BY <1>16, <2>1 DEF WaitBegins, mainVars, Awaited, CountedRuns, Counted
<1>17. ASSUME WaitEnds PROVE Awaited'
  BY <1>17 DEF WaitEnds, mainVars, IInv, TypeOK, Awaited, Counted
<1>18. ASSUME UNCHANGED vars PROVE Awaited'
  BY <1>18 DEF vars, mainVars, IInv, Awaited, Counted
<1>. QED
  BY <1>1, <1>2, <1>3, <1>4, <1>5, <1>6, <1>7, <1>8, <1>9, <1>10,
       <1>11, <1>12, <1>13, <1>14, <1>15, <1>16, <1>17, <1>18
  DEF Next, Main, Release, Outside

(* The types of the variables that are functions to records.                *)
IoType == [Runs -> [at : {"none", "job", "read", "beat", "continue", "eof", "done"},
                    beats : 0..MaxHeartbeats, claim : BOOLEAN]]
PipeType == [Runs -> [in : {"empty", "job", "continue"}, out : {"empty"} \cup Frames,
                      open : BOOLEAN]]
CtxType == [Runs -> [ended : BOOLEAN, over : BOOLEAN, shut : BOOLEAN]]

(* What TypeOK says of them.                                                *)
LEMMA Types == ASSUME TypeOK PROVE io \in IoType /\ pipe \in PipeType /\ ctx \in CtxType
BY DEF TypeOK, IoType, PipeType, CtxType

(* Where the goroutine of exchange goes next.                               *)
LEMMA IoMoves ==
  ASSUME TypeOK, NEW r \in Runs,
         NEW place \in {"read", "beat", "continue", "eof", "done"},
         NEW beats \in 0..MaxHeartbeats
  PROVE  [io EXCEPT ![r].at = place, ![r].beats = beats] \in IoType
BY Types DEF IoType

(* IoGoto keeps the type.                                                   *)
LEMMA IoGotoTypes ==
  ASSUME TypeOK, NEW r \in Runs,
         NEW place \in {"read", "continue", "done"}, IoGoto(r, place)
  PROVE  io' \in IoType
<1>. DEFINE beats == IF place = "done" THEN 0 ELSE io[r].beats
<1>1. io' = [io EXCEPT ![r].at = place, ![r].beats = beats]
  BY Types DEF IoGoto, IoType
<1>2. beats \in 0..MaxHeartbeats
  BY Types, TransportAssumption DEF IoType
<1>. HIDE DEF beats
<1>. QED
  BY <1>1, <1>2, IoMoves

(* The goroutine of exchange ends with a claim or without.                  *)
LEMMA IoEnds ==
  ASSUME TypeOK, NEW r \in Runs, NEW claim \in BOOLEAN
  PROVE  [io EXCEPT ![r].at = "done", ![r].claim = claim] \in IoType
BY Types DEF IoType

(* TypeOK: the counter never passes the slots.                              *)
LEMMA TypeStep ==
  ASSUME IInv, [Next]_vars
  PROVE  TypeOK'
<1>1. ASSUME NEW r \in Runs, Refuse(r) PROVE TypeOK'
  BY <1>1 DEF Refuse, Goto, At, IInv, TypeOK, Living, Exited, Reaped, Frames,
       NoPipe, mainVars
<1>2. ASSUME NEW r \in Runs, TakeSlot(r) PROVE TypeOK'
  <2>1. r \notin slots
    BY <1>2 DEF TakeSlot, At, IInv, Phases
  <2>2. Cardinality(slots \cup {r}) = Cardinality(slots) + 1
    BY <2>1, CountedFinite, FS_AddElement
  <2>3. Cardinality(slots') <= MaxParallel
    BY <1>2, <2>2, CountedFinite, TransportAssumption DEF TakeSlot
  <2>. QED
    BY <1>2, <2>3 DEF TakeSlot, Goto, IInv, TypeOK
<1>3. ASSUME NEW r \in Runs, Count(r) PROVE TypeOK'
  <2>1. CountedRuns \cup {r} \subseteq slots
    BY <1>3, CountedFinite DEF Count, At, IInv, Phases
  <2>2. Cardinality(CountedRuns \cup {r}) <= Cardinality(slots)
    BY <2>1, CountedFinite, FS_Subset
  <2>3. Cardinality(CountedRuns \cup {r}) = active + 1
    BY <1>3, CountAdds, CountedFinite, FS_AddElement DEF IInv, Channels
  <2>4. active' \in 0..MaxParallel
    BY <1>3, <2>2, <2>3, CountedFinite, TransportAssumption
    DEF Count, IInv, TypeOK
  <2>5. idle' \in Nat /\ closed' \subseteq 0..idle'
    BY <1>3 DEF Count, IInv, TypeOK
  <2>. QED
    BY <1>3, <2>4, <2>5 DEF Count, Goto, IInv, TypeOK
<1>4. ASSUME NEW r \in Runs, StartFails(r) PROVE TypeOK'
  BY <1>4 DEF StartFails, Goto, At, IInv, TypeOK, Living, Exited, Reaped,
       Frames, NoPipe, mainVars
<1>5. ASSUME NEW r \in Runs, Start(r) PROVE TypeOK'
  <2>1. io' \in IoType
    BY <1>5, Types DEF Start, IInv, IoType
  <2>2. pipe' \in PipeType
    BY <1>5, Types DEF Start, IInv, PipeType
  <2>3. child' \in [Runs -> {"none"} \cup Living \cup Exited]
    BY <1>5 DEF Start, IInv, TypeOK, Living
  <2>. QED
    BY <1>5, <2>1, <2>2, <2>3
    DEF Start, Goto, mainVars, IInv, TypeOK, IoType, PipeType, CtxType
<1>6. ASSUME NEW r \in Runs, ExchangeEnds(r) PROVE TypeOK'
  BY <1>6 DEF ExchangeEnds, Goto, At, IoAt, IInv, TypeOK, Living, Exited,
       Reaped, Frames, NoPipe, mainVars
<1>7. ASSUME NEW r \in Runs, ExitSeen(r) PROVE TypeOK'
  BY <1>7 DEF ExitSeen, Goto, At, IInv, TypeOK, Living, Exited, Reaped,
       Frames, NoPipe, mainVars
<1>8. ASSUME NEW r \in Runs, CtxSeen(r) PROVE TypeOK'
  BY <1>8 DEF CtxSeen, Goto, At, IInv, TypeOK, Living, Exited, Reaped, Frames,
       NoPipe, mainVars
<1>9. ASSUME NEW r \in Runs, Stop(r) PROVE TypeOK'
  <2>1. ctx' \in CtxType
    BY <1>9, Types DEF Stop, IInv, CtxType
  <2>2. pipe' \in PipeType
    BY <1>9, Types DEF Stop, IInv, PipeType, NoPipe
  <2>3. (run[r].err \/ ctx[r].over \/ ctx[r].ended) \in BOOLEAN
    OBVIOUS
  <2>4. run' \in [Runs -> [at : {"idle", "count", "start", "exchange", "exit", "stop",
                                "cleanup", "release", "returned"},
                          err : BOOLEAN]]
    BY <1>9, <2>3 DEF Stop, Goto, IInv, TypeOK
  <2>. QED
    BY <1>9, <2>1, <2>2, <2>4
    DEF Stop, mainVars, IInv, TypeOK, IoType, PipeType, CtxType
<1>10. ASSUME NEW r \in Runs, Cleaned(r) PROVE TypeOK'
  BY <1>10 DEF Cleaned, Goto, At, IInv, TypeOK, Living, Exited, Reaped,
       Frames, NoPipe, mainVars
<1>11. ASSUME NEW r \in Runs, CleanupExpires(r) PROVE TypeOK'
  BY <1>11 DEF CleanupExpires, Goto, At, IInv, TypeOK, Living, Exited, Reaped,
       Frames, NoPipe, mainVars
<1>12. ASSUME NEW r \in Runs, ReleaserWakes(r) PROVE TypeOK'
  BY <1>12 DEF ReleaserWakes, At, IInv, TypeOK, Living, Exited, Reaped,
       Frames, NoPipe, mainVars
<1>13. ASSUME NEW r \in Runs, Uncount(r) PROVE TypeOK'
  <2>1. active # 0
    BY <1>13, UncountRemoves, CountedFinite, FS_EmptySet DEF IInv, Channels
  <2>2. active' \in 0..MaxParallel
    BY <1>13, <2>1, TransportAssumption DEF Uncount, IInv, TypeOK
  <2>3. closed' \subseteq 0..idle
    BY <1>13 DEF Uncount, IInv, TypeOK
  <2>. QED
    BY <1>13, <2>2, <2>3 DEF Uncount, IInv, TypeOK
<1>14. ASSUME NEW r \in Runs, FreeSlot(r) PROVE TypeOK'
  <2>1. Cardinality(slots') <= MaxParallel /\ slots' \subseteq Runs
    <3>1. Cardinality(slots \ {r}) <= Cardinality(slots)
            /\ Cardinality(slots \ {r}) \in Nat
      BY CountedFinite, FS_Subset, FS_CardinalityType
    <3>. QED
      BY <1>14, <3>1, CountedFinite, TransportAssumption
      DEF FreeSlot, IInv, TypeOK
  <2>2. run' \in [Runs -> [at : {"idle", "count", "start", "exchange", "exit", "stop",
                                "cleanup", "release", "returned"},
                          err : BOOLEAN]]
    <3>1. CASE At(r, "release")
      BY <1>14, <3>1 DEF FreeSlot, Goto, IInv, TypeOK
    <3>2. CASE ~At(r, "release")
      BY <1>14, <3>2 DEF FreeSlot, IInv, TypeOK
    <3>. QED
      BY <3>1, <3>2
  <2>. QED
    BY <1>14, <2>1, <2>2 DEF FreeSlot, IInv, TypeOK
<1>15. ASSUME NEW r \in Runs, WriteJob(r) PROVE TypeOK'
  <2>1. io' \in IoType
    BY <1>15, IoGotoTypes DEF WriteJob, WriteFrame, IInv
  <2>2. pipe' \in PipeType
    BY <1>15, Types DEF WriteJob, WriteFrame, IInv, PipeType
  <2>. QED
    BY <1>15, <2>1, <2>2
    DEF WriteJob, WriteFrame, mainVars, IInv, TypeOK, IoType, PipeType, CtxType
<1>16. ASSUME NEW r \in Runs, WriteContinue(r) PROVE TypeOK'
  <2>1. io' \in IoType
    BY <1>16, IoGotoTypes DEF WriteContinue, WriteFrame, IInv
  <2>2. pipe' \in PipeType
    BY <1>16, Types DEF WriteContinue, WriteFrame, IInv, PipeType
  <2>. QED
    BY <1>16, <2>1, <2>2
    DEF WriteContinue, WriteFrame, mainVars, IInv, TypeOK, IoType, PipeType,
        CtxType
<1>17. ASSUME NEW r \in Runs, ReadEof(r) PROVE TypeOK'
  <2>1. (pipe[r].out = "empty") \in BOOLEAN
    OBVIOUS
  <2>2. io' \in IoType
    BY <1>17, <2>1, IoEnds DEF ReadEof, IInv
  <2>. QED
    BY <1>17, <2>2 DEF ReadEof, mainVars, IInv, TypeOK, IoType, PipeType, CtxType
<1>18. ASSUME NEW r \in Runs, IoFails(r) PROVE TypeOK'
  <2>1. io' \in IoType
    BY <1>18, IoGotoTypes DEF IoFails, IInv
  <2>. QED
    BY <1>18, <2>1 DEF IoFails, mainVars, IInv, TypeOK, IoType, PipeType, CtxType
<1>19. ASSUME NEW r \in Runs, NEW fits \in BOOLEAN, ReadFrame(r, fits) PROVE TypeOK'
  <2>1. pipe' \in PipeType
    BY <1>19, Types DEF ReadFrame, IInv, PipeType
  <2>2. PICK next \in {"beat", "eof", "done"} :
          /\ next = "beat" => io[r].beats < MaxHeartbeats
          /\ io' = [io EXCEPT ![r].at = next,
                              ![r].beats = IF next = "beat" THEN @ + 1 ELSE 0]
    BY <1>19 DEF ReadFrame
  <2>. DEFINE beats == IF next = "beat" THEN io[r].beats + 1 ELSE 0
  <2>3. io' = [io EXCEPT ![r].at = next, ![r].beats = beats]
    BY <2>2, Types DEF IInv, IoType
  <2>4. beats \in 0..MaxHeartbeats
    BY <2>2, Types, TransportAssumption DEF IInv, IoType
  <2>. HIDE DEF beats
  <2>5. io' \in IoType
    BY <2>3, <2>4, IoMoves DEF IInv
  <2>. QED
    BY <1>19, <2>1, <2>5
    DEF ReadFrame, mainVars, IInv, TypeOK, IoType, PipeType, CtxType
<1>20. ASSUME NEW r \in Runs, NEW accepted \in BOOLEAN, BeatAnswered(r, accepted)
      PROVE  TypeOK'
  <2>1. io' \in IoType
    BY <1>20, IoGotoTypes DEF BeatAnswered, IInv
  <2>. QED
    BY <1>20, <2>1
    DEF BeatAnswered, mainVars, IInv, TypeOK, IoType, PipeType, CtxType
<1>21. ASSUME NEW r \in Runs, NEW ok \in BOOLEAN, WaitReturns(r, ok)
      PROVE  TypeOK'
  BY <1>21 DEF WaitReturns, IInv, TypeOK, Living, Exited, Reaped, Frames,
       NoPipe, mainVars
<1>22. ASSUME NEW r \in Runs, ReadJob(r) PROVE TypeOK'
  BY <1>22 DEF ReadJob, ChildVars, IInv, TypeOK, Living, Exited, Reaped,
       Frames, NoPipe, mainVars
<1>23. ASSUME NEW r \in Runs, SendHeartbeat(r) PROVE TypeOK'
  BY <1>23 DEF SendHeartbeat, ChildVars, IInv, TypeOK, Living, Exited, Reaped,
       Frames, NoPipe, mainVars
<1>24. ASSUME NEW r \in Runs, ReadContinue(r) PROVE TypeOK'
  BY <1>24 DEF ReadContinue, ChildVars, IInv, TypeOK, Living, Exited, Reaped,
       Frames, NoPipe, mainVars
<1>25. ASSUME NEW r \in Runs, NEW kind \in {"result", "error"}, SendAnswer(r, kind)
      PROVE  TypeOK'
  BY <1>25 DEF SendAnswer, ChildVars, IInv, TypeOK, Living, Exited, Reaped,
       Frames, NoPipe, mainVars
<1>26. ASSUME NEW r \in Runs, ServeReturns(r) PROVE TypeOK'
  BY <1>26 DEF ServeReturns, ChildVars, IInv, TypeOK, Living, Exited, Reaped,
       Frames, NoPipe, mainVars
<1>27. ASSUME NEW r \in Runs, ServeFails(r) PROVE TypeOK'
  BY <1>27 DEF ServeFails, ChildVars, IInv, TypeOK, Living, Exited, Reaped,
       Frames, NoPipe, mainVars
<1>28. ASSUME NEW r \in Runs, Kill(r) PROVE TypeOK'
  BY <1>28 DEF Kill, ChildVars, IInv, TypeOK, Living, Exited, Reaped, Frames,
       NoPipe, mainVars
<1>29. ASSUME NEW r \in Runs, RogueStep(r) PROVE TypeOK'
  <2>1. PICK at \in Living \cup Exited, in \in {"empty", "job", "continue"},
             out \in {"empty"} \cup Frames, open \in BOOLEAN :
               ChildVars(r, at, in, out, open)
    <3>1. /\ pipe[r].in \in {"empty", "job", "continue"}
          /\ pipe[r].out \in {"empty"} \cup Frames
          /\ pipe[r].open \in BOOLEAN
      BY Types DEF IInv, PipeType
    <3>. QED
      BY <1>29, <3>1 DEF RogueStep, Living
  <2>2. pipe' \in PipeType
    BY <2>1, Types DEF ChildVars, IInv, PipeType
  <2>. QED
    BY <2>1, <2>2 DEF ChildVars, mainVars, IInv, TypeOK, PipeType
<1>30. ASSUME NEW r \in Runs, RogueCloses(r) PROVE TypeOK'
  BY <1>30 DEF RogueCloses, ChildVars, IInv, TypeOK, Living, Exited, Reaped,
       Frames, NoPipe, mainVars
<1>31. ASSUME NEW r \in Runs, Overflow(r) PROVE TypeOK'
  BY <1>31 DEF Overflow, IInv, TypeOK, Living, Exited, Reaped, Frames, NoPipe,
       mainVars
<1>32. ASSUME NEW r \in Runs, CtxEnds(r) PROVE TypeOK'
  <2>1. ctx' \in CtxType
    BY <1>32, Types DEF CtxEnds, IInv, CtxType
  <2>. QED
    BY <1>32, <2>1 DEF CtxEnds, mainVars, IInv, TypeOK, IoType, PipeType, CtxType
<1>33. ASSUME WaitBegins PROVE TypeOK'
  BY <1>33 DEF WaitBegins, IInv, TypeOK, Living, Exited, Reaped, Frames,
       NoPipe, mainVars
<1>34. ASSUME WaitEnds PROVE TypeOK'
  BY <1>34 DEF WaitEnds, IInv, TypeOK, Living, Exited, Reaped, Frames, NoPipe,
       mainVars
<1>35. ASSUME UNCHANGED vars PROVE TypeOK'
  BY <1>35 DEF vars, IInv, TypeOK, Living, Exited, Reaped, Frames, NoPipe,
       mainVars
<1>. QED
  BY <1>1, <1>2, <1>3, <1>4, <1>5, <1>6, <1>7, <1>8, <1>9, <1>10,
       <1>11, <1>12, <1>13, <1>14, <1>15, <1>16, <1>17, <1>18, <1>19, <1>20,
       <1>21, <1>22, <1>23, <1>24, <1>25, <1>26, <1>27, <1>28, <1>29, <1>30,
       <1>31, <1>32, <1>33, <1>34, <1>35
  DEF Next, Main, Io, Wait, Release, Serve

(* The invariant the theorems rest on.                                      *)
THEOREM InductiveInvariant == Spec => []IInv
<1>1. Init => IInv
  BY InitInvariant
<1>2. IInv /\ [Next]_vars => IInv'
  BY TypeStep, PhasesStep, ChannelsStep, AwaitedStep, CleanStep DEF IInv
<1>. QED
  BY <1>1, <1>2, PTL DEF Spec

-----------------------------------------------------------------------------
(* No more slots are taken, and no more runs counted, than there are; the   *)
(* idle channels that are closed have been made.                            *)
THEOREM TypeCorrect == Spec => []TypeOK
<1>1. IInv => TypeOK
  BY DEF IInv
<1>. QED
  BY <1>1, InductiveInvariant, PTL

(* A process or a goroutine is never left without the slot of its run,      *)
(* whatever the executable does, and also after the cleanup budget.         *)
THEOREM SlotsCoverWork == Spec => []SlotCoversWork
<1>1. IInv => SlotCoversWork
  <2>. SUFFICES ASSUME IInv, NEW r \in Runs, Busy(r) PROVE r \in slots
    BY DEF SlotCoversWork
  <2>1. run[r].at # "idle"
    BY DEF IInv, Phases, Busy, Living
  <2>2. run[r].at = "returned" => releaser[r] = "await"
    BY DEF IInv, TypeOK, Phases
  <2>. QED
    BY <2>1, <2>2 DEF IInv, Phases
<1>. QED
  BY <1>1, InductiveInvariant, PTL

(* The idle channel in the statistics is closed exactly while nothing is    *)
(* active, for whatever order the runs are counted and uncounted in.        *)
THEOREM IdleChannelIsHonest == Spec => []IdleChannelHonest
<1>1. IInv => IdleChannelHonest
  BY DEF IInv, Channels, IdleChannelHonest
<1>. QED
  BY <1>1, InductiveInvariant, PTL

(* WaitIdle returns to nobody while a run that it waits for has work left.  *)
THEOREM IdleBarrierIsSound == Spec => []IdleBarrier
<1>1. IInv => IdleBarrier
  <2>. SUFFICES ASSUME IInv, barrier.at = "passed", NEW r \in barrier.for
                PROVE  ~Busy(r)
    BY DEF IdleBarrier
  <2>1. r \in Runs
    BY DEF IInv, TypeOK
  <2>2. releaser[r] \in {"slot", "done"}
    BY DEF IInv, Awaited, Counted
  <2>. QED
    BY <2>1, <2>2 DEF IInv, Phases
<1>. QED
  BY <1>1, InductiveInvariant, PTL

(* Run returns no claim that the child has not made alone, with a           *)
(* successful exit, and within the bound on stderr.                         *)
THEOREM ClaimsAreClean == Spec => []ClaimIsClean
<1>1. IInv => ClaimIsClean
  <2>. SUFFICES ASSUME IInv, NEW r \in Runs, At(r, "returned"), ~run[r].err
                PROVE  spoke[r] = "result" /\ child[r] = "succeeded" /\ ~ctx[r].over
    BY DEF ClaimIsClean
  <2>. QED
    BY DEF At, IInv, Clean
<1>. QED
  BY <1>1, InductiveInvariant, PTL
=============================================================================
