------------------------ MODULE ProductionInputs_proofs ------------------------
(***************************************************************************)
(* Proofs about ProductionInputs, for any number of speaker turns: what an *)
(* order can cost, that an answer is never bought again, and that nothing  *)
(* is bought or built on something torn.                                   *)
(***************************************************************************)
EXTENDS ProductionInputs, TLAPS

\* A run at work on a paid item whose result is not there.
Buying == {"sample", "reserve", "spend", "call", "answer", "finalize", "record"}
\* A run that has the commission.
Commissioning == {"image", "video", "copying", "fetching", "write"}
Commissioned == {"gate", "inputs", "item", "manifest", "compile", "handover"} \cup Buying

\* The markers admit what was paid, and the call that is about to be made.
Counted ==
    /\ \A i \in Items : paid[i] <= tries[i]
    /\ run.pc \in {"spend", "call"} => paid[run.item] < tries[run.item]

\* Who is about to call had passed the gate before the stop.
StopSeen == late <= 1 /\ (late > 0 => stopped /\ run.pc # "call")

\* Nobody is about to buy what is answered; a result was answered.
Answers ==
    /\ run.pc \in {"spend", "call", "answer"} => ~closed[run.item]
    /\ run.pc = "answer" => paid[run.item] > 0
    /\ run.pc \in {"finalize", "record"} => closed[run.item] /\ paid[run.item] > 0
    /\ \A i \in Items : result[i] = "whole" => closed[i] /\ paid[i] > 0

\* The commission stands on the video and is written once.
CommissionStands ==
    /\ run.pc \in Commissioning => commission = "absent"
    /\ run.pc \in Commissioned => commission = "whole"
    /\ reference /\ (run.pc = "write" \/ commission = "whole") => film = "whole"

\* An item is worked at, and was bought, on what it builds on.
ItemsStand ==
    /\ run.pc \in {"item"} \cup Buying => Founded(run.item)
    /\ run.pc \in Buying => result[run.item] = "absent"
    /\ run.pc = "inputs" => run.item = Copy /\ (reference => result[Analysis] = "whole")
    /\ \A i \in Items : paid[i] > 0 => Founded(i)

AllThere ==
    /\ reference => result[Analysis] = "whole"
    /\ \A i \in Copy .. Voice(copy.turns) : result[i] = "whole"

\* The manifest and everything after it have all items behind them.
ManifestStands ==
    /\ run.pc = "manifest" \/ manifest = "whole" => AllThere
    /\ run.pc \in {"compile", "handover"} \/ built => manifest = "whole"
    /\ built => run.pc = "idle"

IInv ==
    /\ TypeOK /\ Counted /\ StopSeen /\ Answers
    /\ CommissionStands /\ ItemsStand /\ ManifestStands

-----------------------------------------------------------------------------
(* Types. *)

LEMMA GoesTyped == ASSUME run \in Run, NEW pc \in Steps, Goes(pc) PROVE run' \in Run
  BY DEF Goes, Run

LEMMA EndsTyped == Ends => run' \in Run
<1> "idle" \in Steps /\ Analysis \in Items
  BY InputsAssumption DEF Steps, Items, Analysis
<1> QED
  BY DEF Ends, Run, Idle

LEMMA ProceedsTyped ==
    ASSUME NEW after \in Items, NEW turns \in 0 .. MaxTurns, NEW over,
           Proceeds(after, turns, over)
    PROVE  run' \in Run
<1>1. /\ {"inputs", "idle", "item", "manifest"} \subseteq Steps
      /\ Copy \in Items /\ Idle \in Run /\ (after < Voice(turns) => after + 1 \in Items)
  BY InputsAssumption DEF Steps, Items, Analysis, Copy, Idle, Run, Voice
<1> QED
  BY <1>1 DEF Proceeds, Run

LEMMA AgainTyped == run \in Run /\ Again => run' \in Run
<1>1. "reserve" \in Steps
  BY DEF Steps
<1> QED
  BY <1>1, GoesTyped, EndsTyped DEF Again

\* Every action leaves the run with a known step and item.
LEMMA RunTyped == TypeOK /\ [Next]_vars => run' \in Run
<1> SUFFICES ASSUME TypeOK, [Next]_vars PROVE run' \in Run
  OBVIOUS
<1>1. run \in Run /\ Current \in Items /\ copy.turns \in 0 .. MaxTurns
  BY DEF TypeOK, Run, Current
<1>2. CASE Begin
  <2>1. {"commission"} \subseteq Steps
    BY DEF Steps
  <2> QED
    BY <1>1, <1>2, <2>1, GoesTyped, EndsTyped DEF Begin
<1>3. CASE ReadCommission
  <2>1. {"gate", "image"} \subseteq Steps
    BY DEF Steps
  <2> QED
    BY <1>1, <1>3, <2>1, GoesTyped, EndsTyped DEF ReadCommission
<1>4. CASE LocalizeImage
  <2>1. {"video", "write"} \subseteq Steps
    BY DEF Steps
  <2> QED
    BY <1>1, <1>4, <2>1, GoesTyped, EndsTyped DEF LocalizeImage
<1>5. CASE FindVideo
  <2>1. {"copying", "fetching"} \subseteq Steps
    BY DEF Steps
  <2> QED
    BY <1>1, <1>5, <2>1, GoesTyped, EndsTyped DEF FindVideo
<1>6. CASE CopyVideo
  <2>1. {"write"} \subseteq Steps
    BY DEF Steps
  <2> QED
    BY <1>1, <1>6, <2>1, GoesTyped, EndsTyped DEF CopyVideo
<1>7. CASE FetchVideo
  <2>1. {"write"} \subseteq Steps
    BY DEF Steps
  <2> QED
    BY <1>1, <1>7, <2>1, GoesTyped, EndsTyped DEF FetchVideo
<1>8. CASE OtherOrders
  BY <1>1, <1>8 DEF OtherOrders
<1>9. CASE WriteCommission
  <2>1. {"gate"} \subseteq Steps
    BY DEF Steps
  <2> QED
    BY <1>1, <1>9, <2>1, GoesTyped, EndsTyped DEF WriteCommission
<1>10. CASE Gate
  BY <1>1, <1>10, EndsTyped, InputsAssumption DEF Gate, Run, Steps, Items, Analysis, Copy
<1>11. CASE TakeManifest
  <2>1. {"compile", "item"} \subseteq Steps
    BY DEF Steps
  <2> QED
    BY <1>1, <1>11, <2>1, GoesTyped, EndsTyped DEF TakeManifest
<1>12. CASE TakeAnalysis
  <2>1. {"sample"} \subseteq Steps
    BY DEF Steps
  <2> QED
    BY <1>1, <1>12, <2>1, GoesTyped, EndsTyped, ProceedsTyped DEF TakeAnalysis, Reuse
<1>13. CASE Sample
  <2>1. {"reserve"} \subseteq Steps
    BY DEF Steps
  <2> QED
    BY <1>1, <1>13, <2>1, GoesTyped, EndsTyped DEF Sample
<1>14. CASE TakeCopy
  <2>1. {"reserve"} \subseteq Steps
    BY DEF Steps
  <2> QED
    BY <1>1, <1>14, <2>1, GoesTyped, EndsTyped, ProceedsTyped DEF TakeCopy, Reuse
<1>15. CASE TakeVoice
  <2>1. {"reserve"} \subseteq Steps
    BY DEF Steps
  <2> QED
    BY <1>1, <1>15, <2>1, GoesTyped, EndsTyped, ProceedsTyped DEF TakeVoice, Reuse
<1>16. CASE Reserve
  <2>1. {"spend"} \subseteq Steps
    BY DEF Steps
  <2> QED
    BY <1>1, <1>16, <2>1, GoesTyped, EndsTyped DEF Reserve
<1>17. CASE Spend
  <2>1. {"call"} \subseteq Steps
    BY DEF Steps
  <2> QED
    BY <1>1, <1>17, <2>1, GoesTyped, EndsTyped, AgainTyped DEF Spend
<1>18. CASE CallUnmade
  BY <1>1, <1>18, EndsTyped, AgainTyped DEF CallUnmade
<1>19. CASE Call
  <2>1. {"answer"} \subseteq Steps
    BY DEF Steps
  <2> QED
    BY <1>1, <1>19, <2>1, GoesTyped, EndsTyped DEF Call
<1>20. CASE CallFails
  BY <1>1, <1>20, EndsTyped, AgainTyped DEF CallFails
<1>21. CASE CallAnswers
  <2>1. {"finalize"} \subseteq Steps
    BY DEF Steps
  <2> QED
    BY <1>1, <1>21, <2>1, GoesTyped, EndsTyped DEF CallAnswers
<1>22. CASE FinalizeAnalysis
  BY <1>1, <1>22, EndsTyped, ProceedsTyped DEF FinalizeAnalysis, Writes, Loses
<1>23. CASE FinalizeCopy
  BY <1>1, <1>23, EndsTyped, ProceedsTyped DEF FinalizeCopy, Writes, Loses
<1>24. CASE FinalizeVoice
  <2>1. {"record"} \subseteq Steps
    BY DEF Steps
  <2> QED
    BY <1>1, <1>24, <2>1, GoesTyped, EndsTyped DEF FinalizeVoice
<1>25. CASE Record
  BY <1>1, <1>25, EndsTyped, ProceedsTyped DEF Record, Writes, Loses
<1>26. CASE WriteManifest
  <2>1. {"compile"} \subseteq Steps
    BY DEF Steps
  <2> QED
    BY <1>1, <1>26, <2>1, GoesTyped, EndsTyped DEF WriteManifest
<1>27. CASE Compile
  <2>1. {"handover"} \subseteq Steps
    BY DEF Steps
  <2> QED
    BY <1>1, <1>27, <2>1, GoesTyped, EndsTyped DEF Compile
<1>28. CASE Handover
  BY <1>1, <1>28, EndsTyped DEF Handover
<1>29. CASE Stop
  BY <1>1, <1>29 DEF Stop
<1>30. CASE Crash
  BY <1>1, <1>30, EndsTyped DEF Crash
<1>31. CASE UNCHANGED vars
  BY <1>1, <1>31 DEF vars
<1> QED
  BY <1>2, <1>3, <1>4, <1>5, <1>6, <1>7, <1>8, <1>9, <1>10, <1>11, <1>12, <1>13, <1>14,
     <1>15, <1>16, <1>17, <1>18, <1>19, <1>20, <1>21, <1>22, <1>23, <1>24, <1>25, <1>26,
           <1>27, <1>28, <1>29, <1>30, <1>31 DEF Next, RunStep, Localization

LEMMA Typing == TypeOK /\ [Next]_vars => TypeOK'
<1> SUFFICES ASSUME TypeOK, [Next]_vars PROVE TypeOK'
  OBVIOUS
<1>1. run' \in Run
  BY RunTyped
<1>2. Current \in Items
  BY DEF TypeOK, Run, Current
<1> USE DEF TypeOK, files, markers, products, ghosts
<1>3. CASE Begin
  BY <1>1, <1>2, <1>3 DEF Begin
<1>4. CASE ReadCommission
  BY <1>1, <1>2, <1>4 DEF ReadCommission
<1>5. CASE LocalizeImage
  BY <1>1, <1>2, <1>5 DEF LocalizeImage
<1>6. CASE FindVideo
  BY <1>1, <1>2, <1>6 DEF FindVideo, Files
<1>7. CASE CopyVideo
  BY <1>1, <1>2, <1>7 DEF CopyVideo, Files
<1>8. CASE FetchVideo
  BY <1>1, <1>2, <1>8 DEF FetchVideo, Files
<1>9. CASE OtherOrders
  BY <1>1, <1>2, <1>9 DEF OtherOrders
<1>10. CASE WriteCommission
  BY <1>1, <1>2, <1>10 DEF WriteCommission, Files
<1>11. CASE Gate
  BY <1>1, <1>2, <1>11 DEF Gate
<1>12. CASE TakeManifest
  BY <1>1, <1>2, <1>12 DEF TakeManifest
<1>13. CASE TakeAnalysis
  BY <1>1, <1>2, <1>13 DEF TakeAnalysis
<1>14. CASE Sample
  BY <1>1, <1>2, <1>14 DEF Sample
<1>15. CASE TakeCopy
  BY <1>1, <1>2, <1>15 DEF TakeCopy
<1>16. CASE TakeVoice
  BY <1>1, <1>2, <1>16 DEF TakeVoice
<1>17. CASE Reserve
  <2>1. tries' \in [Items -> 0 .. 2]
    BY <1>2, <1>17 DEF Reserve
  <2>2. closed' \in [Items -> BOOLEAN]
    BY <1>2, <1>17 DEF Reserve
  <2> QED
    BY <1>1, <1>17, <2>1, <2>2 DEF Reserve
<1>18. CASE Spend
  BY <1>1, <1>2, <1>18 DEF Spend
<1>19. CASE CallUnmade
  BY <1>1, <1>2, <1>19 DEF CallUnmade
<1>20. CASE Call
  BY <1>1, <1>2, <1>20 DEF Call
<1>21. CASE CallFails
  BY <1>1, <1>2, <1>21 DEF CallFails
<1>22. CASE CallAnswers
  BY <1>1, <1>2, <1>22 DEF CallAnswers
<1>23. CASE FinalizeAnalysis
  BY <1>1, <1>2, InputsAssumption, <1>23 DEF FinalizeAnalysis, Writes, Loses, Files, Items,
     Analysis, Copy
<1>24. CASE FinalizeCopy
  BY <1>1, <1>2, InputsAssumption, <1>24 DEF FinalizeCopy, Writes, Loses, Files, Items,
     Analysis, Copy
<1>25. CASE FinalizeVoice
  BY <1>1, <1>2, <1>25 DEF FinalizeVoice
<1>26. CASE Record
  BY <1>1, <1>2, <1>26 DEF Record, Writes, Loses, Files
<1>27. CASE WriteManifest
  BY <1>1, <1>2, <1>27 DEF WriteManifest, Files
<1>28. CASE Compile
  BY <1>1, <1>2, <1>28 DEF Compile
<1>29. CASE Handover
  BY <1>1, <1>2, <1>29 DEF Handover
<1>30. CASE Stop
  BY <1>1, <1>2, <1>30 DEF Stop
<1>31. CASE Crash
  BY <1>1, <1>2, <1>31 DEF Crash
<1>32. CASE UNCHANGED vars
  BY <1>1, <1>32 DEF vars
<1> QED
  BY <1>3, <1>4, <1>5, <1>6, <1>7, <1>8, <1>9, <1>10, <1>11, <1>12, <1>13, <1>14, <1>15,
     <1>16, <1>17, <1>18, <1>19, <1>20, <1>21, <1>22, <1>23, <1>24, <1>25, <1>26, <1>27,
           <1>28, <1>29, <1>30, <1>31, <1>32 DEF Next, RunStep, Localization

-----------------------------------------------------------------------------
(* One lemma per action. *)

\* What an item builds on stays when results are only added.
LEMMA FoundedStays ==
    ASSUME NEW i, Founded(i), UNCHANGED <<reference, commission, film, copy>>,
           copy.turns \in 0 .. MaxTurns, i \in Items,
           \A j \in Items : result[j] = "whole" => result'[j] = "whole"
    PROVE  Founded(i)'
<1>1. \A j \in Copy .. i - 1 : i > Copy => j \in Items
  BY InputsAssumption DEF Items, Copy, Voice
<1> QED
  BY <1>1, InputsAssumption DEF Founded, Items, Copy, Analysis, Voice

\* Where a run proceeds to after an item, it finds what it needs.
LEMMA ProceedingStands ==
    ASSUME TypeOK', NEW after \in Items, Proceeds(after, copy.turns, copy.over),
           copy' = copy, Founded(after)', result'[after] = "whole",
           result'[Copy] = "whole" => Founded(Copy)'
    PROVE  /\ run'.pc \in {"inputs", "idle", "item", "manifest"}
           /\ (run.pc = "item" => Founded(run.item))'
           /\ run'.pc = "inputs" => run'.item = Copy /\ (reference' => result'[Analysis] = "whole")
           /\ run'.pc = "manifest" => AllThere'
<1>1. after \in Nat /\ copy.turns \in 0 .. MaxTurns /\ Analysis < Copy /\ MaxTurns \in Nat
  BY InputsAssumption DEF TypeOK, Items, Copy, Analysis
<1>2. CASE after = Analysis
  BY <1>2 DEF Proceeds
<1>3. CASE after = Copy /\ copy.over
  BY <1>1, <1>3 DEF Proceeds, Idle
<1>4. CASE after >= Copy /\ ~(after = Copy /\ copy.over)
  <2>1. /\ \A j \in Copy .. after : result'[j] = "whole"
        /\ commission' = "whole" /\ (reference' => film' = "whole") /\ ~copy.over
        /\ reference' => result'[Analysis] = "whole"
    <3>1. CASE after = Copy
      BY <3>1, <1>1, <1>4 DEF Founded, Copy, Analysis
    <3>2. CASE after > Copy
      BY <3>2, <1>1, <1>4 DEF Founded, Copy, Analysis
    <3> QED
      BY <1>1, <1>4, <3>1, <3>2 DEF Copy
  <2>2. CASE after < Voice(copy.turns)
    <3>1. run' = [pc |-> "item", item |-> after + 1]
      BY <2>2, <1>1, <1>4 DEF Proceeds, Copy, Analysis
    <3>2. Founded(after + 1)'
      BY <2>1, <2>2, <1>1, <1>4 DEF Founded, Copy, Analysis, Voice
    <3> QED
      BY <3>1, <3>2
  <2>3. CASE ~(after < Voice(copy.turns))
    <3>1. run' = [pc |-> "manifest", item |-> after]
      BY <2>3, <1>1, <1>4 DEF Proceeds, Copy, Analysis
    <3>2. AllThere'
      BY <2>1, <2>3, <1>1, <1>4 DEF AllThere, Copy, Voice
    <3> QED
      BY <3>1, <3>2
  <2> QED
    BY <2>2, <2>3
<1> QED
  BY <1>1, <1>2, <1>3, <1>4 DEF Items, Copy, Analysis

LEMMA BeginKeeps == IInv /\ TypeOK' /\ Begin => IInv'
<1> SUFFICES ASSUME IInv, TypeOK', Begin PROVE IInv'
  OBVIOUS
<1> USE InputsAssumption DEF IInv, Begin, At, Goes, Ends, Idle, Current, files, markers,
      products, ghosts, TypeOK, Run, Items, Analysis, Copy, Voice
<1>1. Counted'
  BY DEF Counted
<1>2. StopSeen'
  BY DEF StopSeen
<1>3. Answers'
  BY DEF Answers, Buying
<1>4. CommissionStands'
  BY DEF CommissionStands, Commissioning, Commissioned, Buying
<1>5. ItemsStand'
  BY DEF ItemsStand, Founded, Buying, Commissioned, Commissioning, CommissionStands, Answers
<1>6. ManifestStands'
  BY DEF ManifestStands, AllThere, ItemsStand, Founded, Buying, Answers, Commissioned,
     CommissionStands
<1> QED
  BY <1>1, <1>2, <1>3, <1>4, <1>5, <1>6

LEMMA ReadCommissionKeeps == IInv /\ TypeOK' /\ ReadCommission => IInv'
<1> SUFFICES ASSUME IInv, TypeOK', ReadCommission PROVE IInv'
  OBVIOUS
<1> USE InputsAssumption DEF IInv, ReadCommission, At, Goes, Ends, Idle, Current, files,
      markers, products, ghosts, TypeOK, Run, Items, Analysis, Copy, Voice
<1>1. Counted'
  BY DEF Counted
<1>2. StopSeen'
  BY DEF StopSeen
<1>3. Answers'
  BY DEF Answers, Buying
<1>4. CommissionStands'
  BY DEF CommissionStands, Commissioning, Commissioned, Buying
<1>5. ItemsStand'
  BY DEF ItemsStand, Founded, Buying, Commissioned, Commissioning, CommissionStands, Answers
<1>6. ManifestStands'
  BY DEF ManifestStands, AllThere, ItemsStand, Founded, Buying, Answers, Commissioned,
     CommissionStands
<1> QED
  BY <1>1, <1>2, <1>3, <1>4, <1>5, <1>6

LEMMA LocalizeImageKeeps == IInv /\ TypeOK' /\ LocalizeImage => IInv'
<1> SUFFICES ASSUME IInv, TypeOK', LocalizeImage PROVE IInv'
  OBVIOUS
<1> USE InputsAssumption DEF IInv, LocalizeImage, At, Goes, Ends, Idle, Current, files,
      markers, products, ghosts, TypeOK, Run, Items, Analysis, Copy, Voice
<1>1. Counted'
  BY DEF Counted
<1>2. StopSeen'
  BY DEF StopSeen
<1>3. Answers'
  BY DEF Answers, Buying
<1>4. CommissionStands'
  BY DEF CommissionStands, Commissioning, Commissioned, Buying
<1>5. ItemsStand'
  BY DEF ItemsStand, Founded, Buying, Commissioned, Commissioning, CommissionStands, Answers
<1>6. ManifestStands'
  BY DEF ManifestStands, AllThere, ItemsStand, Founded, Buying, Answers, Commissioned,
     CommissionStands
<1> QED
  BY <1>1, <1>2, <1>3, <1>4, <1>5, <1>6

LEMMA FindVideoKeeps == IInv /\ TypeOK' /\ FindVideo => IInv'
<1> SUFFICES ASSUME IInv, TypeOK', FindVideo PROVE IInv'
  OBVIOUS
<1> USE InputsAssumption DEF IInv, FindVideo, At, Goes, Ends, Idle, Current, files, markers,
      products, ghosts, TypeOK, Run, Items, Analysis, Copy, Voice
<1>1. Counted'
  BY DEF Counted
<1>2. StopSeen'
  BY DEF StopSeen
<1>3. Answers'
  BY DEF Answers, Buying
<1>4. CommissionStands'
  BY DEF CommissionStands, Commissioning, Commissioned, Buying
<1>5. ItemsStand'
  BY DEF ItemsStand, Founded, Buying, Commissioned, Commissioning, CommissionStands, Answers
<1>6. ManifestStands'
  BY DEF ManifestStands, AllThere, ItemsStand, Founded, Buying, Answers, Commissioned,
     CommissionStands
<1> QED
  BY <1>1, <1>2, <1>3, <1>4, <1>5, <1>6

LEMMA CopyVideoKeeps == IInv /\ TypeOK' /\ CopyVideo => IInv'
<1> SUFFICES ASSUME IInv, TypeOK', CopyVideo PROVE IInv'
  OBVIOUS
<1> USE InputsAssumption DEF IInv, CopyVideo, At, Goes, Ends, Idle, Current, files, markers,
      products, ghosts, TypeOK, Run, Items, Analysis, Copy, Voice
<1>1. Counted'
  BY DEF Counted
<1>2. StopSeen'
  BY DEF StopSeen
<1>3. Answers'
  BY DEF Answers, Buying
<1>4. CommissionStands'
  BY DEF CommissionStands, Commissioning, Commissioned, Buying
<1>5. ItemsStand'
  BY DEF ItemsStand, Founded, Buying, Commissioned, Commissioning, CommissionStands, Answers
<1>6. ManifestStands'
  BY DEF ManifestStands, AllThere, ItemsStand, Founded, Buying, Answers, Commissioned,
     CommissionStands
<1> QED
  BY <1>1, <1>2, <1>3, <1>4, <1>5, <1>6

LEMMA FetchVideoKeeps == IInv /\ TypeOK' /\ FetchVideo => IInv'
<1> SUFFICES ASSUME IInv, TypeOK', FetchVideo PROVE IInv'
  OBVIOUS
<1> USE InputsAssumption DEF IInv, FetchVideo, At, Goes, Ends, Idle, Current, files, markers,
      products, ghosts, TypeOK, Run, Items, Analysis, Copy, Voice
<1>1. Counted'
  BY DEF Counted
<1>2. StopSeen'
  BY DEF StopSeen
<1>3. Answers'
  BY DEF Answers, Buying
<1>4. CommissionStands'
  BY DEF CommissionStands, Commissioning, Commissioned, Buying
<1>5. ItemsStand'
  BY DEF ItemsStand, Founded, Buying, Commissioned, Commissioning, CommissionStands, Answers
<1>6. ManifestStands'
  BY DEF ManifestStands, AllThere, ItemsStand, Founded, Buying, Answers, Commissioned,
     CommissionStands
<1> QED
  BY <1>1, <1>2, <1>3, <1>4, <1>5, <1>6

LEMMA OtherOrdersKeeps == IInv /\ TypeOK' /\ OtherOrders => IInv'
<1> SUFFICES ASSUME IInv, TypeOK', OtherOrders PROVE IInv'
  OBVIOUS
<1> USE InputsAssumption DEF IInv, OtherOrders, At, Goes, Ends, Idle, Current, files,
      markers, products, ghosts, TypeOK, Run, Items, Analysis, Copy, Voice
<1>1. Counted'
  BY DEF Counted
<1>2. StopSeen'
  BY DEF StopSeen
<1>3. Answers'
  BY DEF Answers, Buying
<1>4. CommissionStands'
  BY DEF CommissionStands, Commissioning, Commissioned, Buying
<1>5. ItemsStand'
  BY DEF ItemsStand, Founded, Buying, Commissioned, Commissioning, CommissionStands, Answers
<1>6. ManifestStands'
  BY DEF ManifestStands, AllThere, ItemsStand, Founded, Buying, Answers, Commissioned,
     CommissionStands
<1> QED
  BY <1>1, <1>2, <1>3, <1>4, <1>5, <1>6

LEMMA WriteCommissionKeeps == IInv /\ TypeOK' /\ WriteCommission => IInv'
<1> SUFFICES ASSUME IInv, TypeOK', WriteCommission PROVE IInv'
  OBVIOUS
<1> USE InputsAssumption DEF IInv, WriteCommission, At, Goes, Ends, Idle, Current, files,
      markers, products, ghosts, TypeOK, Run, Items, Analysis, Copy, Voice
<1>1. Counted'
  BY DEF Counted
<1>2. StopSeen'
  BY DEF StopSeen
<1>3. Answers'
  BY DEF Answers, Buying
<1>4. CommissionStands'
  BY DEF CommissionStands, Commissioning, Commissioned, Buying
<1>5. ItemsStand'
  BY DEF ItemsStand, Founded, Buying, Commissioned, Commissioning, CommissionStands, Answers
<1>6. ManifestStands'
  BY DEF ManifestStands, AllThere, ItemsStand, Founded, Buying, Answers, Commissioned,
     CommissionStands
<1> QED
  BY <1>1, <1>2, <1>3, <1>4, <1>5, <1>6

LEMMA GateKeeps == IInv /\ TypeOK' /\ Gate => IInv'
<1> SUFFICES ASSUME IInv, TypeOK', Gate PROVE IInv'
  OBVIOUS
<1> USE InputsAssumption DEF IInv, Gate, At, Goes, Ends, Idle, Current, files, markers,
      products, ghosts, TypeOK, Run, Items, Analysis, Copy, Voice
<1>1. Counted'
  BY DEF Counted
<1>2. StopSeen'
  BY DEF StopSeen
<1>3. Answers'
  BY DEF Answers, Buying
<1>4. CommissionStands'
  BY DEF CommissionStands, Commissioning, Commissioned, Buying
<1>5. ItemsStand'
  BY DEF ItemsStand, Founded, Buying, Commissioned, Commissioning, CommissionStands, Answers
<1>6. ManifestStands'
  BY DEF ManifestStands, AllThere, ItemsStand, Founded, Buying, Answers, Commissioned,
     CommissionStands
<1> QED
  BY <1>1, <1>2, <1>3, <1>4, <1>5, <1>6

LEMMA TakeManifestKeeps == IInv /\ TypeOK' /\ TakeManifest => IInv'
<1> SUFFICES ASSUME IInv, TypeOK', TakeManifest PROVE IInv'
  OBVIOUS
<1> USE InputsAssumption DEF IInv, TakeManifest, At, Goes, Ends, Idle, Current, files,
      markers, products, ghosts, TypeOK, Run, Items, Analysis, Copy, Voice
<1>1. Counted'
  BY DEF Counted
<1>2. StopSeen'
  BY DEF StopSeen
<1>3. Answers'
  BY DEF Answers, Buying
<1>4. CommissionStands'
  BY DEF CommissionStands, Commissioning, Commissioned, Buying
<1>5. ItemsStand'
  BY DEF ItemsStand, Founded, Buying, Commissioned, Commissioning, CommissionStands, Answers
<1>6. ManifestStands'
  BY DEF ManifestStands, AllThere, ItemsStand, Founded, Buying, Answers, Commissioned,
     CommissionStands
<1> QED
  BY <1>1, <1>2, <1>3, <1>4, <1>5, <1>6

LEMMA TakeAnalysisKeeps == IInv /\ TypeOK' /\ TakeAnalysis => IInv'
<1> SUFFICES ASSUME IInv, TypeOK', TakeAnalysis PROVE IInv'
  OBVIOUS
<1> USE InputsAssumption DEF IInv, TakeAnalysis, At, Goes, Ends, Idle, Current, files,
      markers, products, ghosts, TypeOK, Run, Items, Analysis, Copy, Voice, Reuse, Proceeds
<1>1. Counted'
  BY DEF Counted
<1>2. StopSeen'
  BY DEF StopSeen
<1>3. Answers'
  BY DEF Answers, Buying
<1>4. CommissionStands'
  BY DEF CommissionStands, Commissioning, Commissioned, Buying
<1>5. ItemsStand'
  BY DEF ItemsStand, Founded, Buying, Commissioned, Commissioning, CommissionStands, Answers
<1>6. ManifestStands'
  BY DEF ManifestStands, AllThere, ItemsStand, Founded, Buying, Answers, Commissioned,
     CommissionStands
<1> QED
  BY <1>1, <1>2, <1>3, <1>4, <1>5, <1>6

LEMMA SampleKeeps == IInv /\ TypeOK' /\ Sample => IInv'
<1> SUFFICES ASSUME IInv, TypeOK', Sample PROVE IInv'
  OBVIOUS
<1> USE InputsAssumption DEF IInv, Sample, At, Goes, Ends, Idle, Current, files, markers,
      products, ghosts, TypeOK, Run, Items, Analysis, Copy, Voice
<1>1. Counted'
  BY DEF Counted
<1>2. StopSeen'
  BY DEF StopSeen
<1>3. Answers'
  BY DEF Answers, Buying
<1>4. CommissionStands'
  BY DEF CommissionStands, Commissioning, Commissioned, Buying
<1>5. ItemsStand'
  BY DEF ItemsStand, Founded, Buying, Commissioned, Commissioning, CommissionStands, Answers
<1>6. ManifestStands'
  BY DEF ManifestStands, AllThere, ItemsStand, Founded, Buying, Answers, Commissioned,
     CommissionStands
<1> QED
  BY <1>1, <1>2, <1>3, <1>4, <1>5, <1>6

LEMMA TakeCopyKeeps == IInv /\ TypeOK' /\ TakeCopy => IInv'
<1> SUFFICES ASSUME IInv, TypeOK', TakeCopy PROVE IInv'
  OBVIOUS
<1>1. /\ Current = Copy /\ Copy \in Items /\ run.item = Copy /\ run.pc = "item" /\ run \in Run
      /\ Founded(Copy) /\ ~built
  BY DEF IInv, TypeOK, TakeCopy, Run, Current, At, ItemsStand, ManifestStands
<1>2. \A i \in Items : Founded(i) => Founded(i)'
  BY FoundedStays DEF TakeCopy, files, products, IInv, TypeOK
<1>3. AllThere => AllThere'
  BY DEF AllThere, TakeCopy, products
<1>4. ASSUME Ends \/ (result[Copy] = "absent" /\ Goes("reserve"))
      PROVE ItemsStand' /\ ManifestStands'
  BY <1>1, <1>2, <1>3, <1>4 DEF Goes, Ends, Idle, IInv, ItemsStand, ManifestStands, Buying,
     TakeCopy, ghosts, products, files, Run
<1>5. ASSUME result[Copy] = "whole" /\ Proceeds(Copy, copy.turns, copy.over)
      PROVE ItemsStand' /\ ManifestStands'
  <2>1. result'[Copy] = "whole" /\ Founded(Copy)' /\ copy' = copy
    BY <1>1, <1>2, <1>5 DEF TakeCopy, products
  <2> QED
    BY <1>1, <1>2, <1>3, <1>5, <2>1, ProceedingStands
       DEF IInv, ItemsStand, ManifestStands, Buying, TakeCopy, ghosts, products, files
<1>6. ItemsStand' /\ ManifestStands'
  BY <1>1, <1>4, <1>5 DEF TakeCopy, Reuse
<1> USE InputsAssumption DEF IInv, TakeCopy, At, Goes, Ends, Idle, Current, files, markers,
      products, ghosts, TypeOK, Run, Items, Analysis, Copy, Voice, Reuse, Proceeds
<1>7. Counted'
  BY DEF Counted
<1>8. StopSeen'
  BY DEF StopSeen
<1>9. Answers'
  BY DEF Answers, Buying
<1>10. CommissionStands'
  BY DEF CommissionStands, Commissioning, Commissioned, Buying
<1> QED
  BY <1>6, <1>7, <1>8, <1>9, <1>10

LEMMA TakeVoiceKeeps == IInv /\ TypeOK' /\ TakeVoice => IInv'
<1> SUFFICES ASSUME IInv, TypeOK', TakeVoice PROVE IInv'
  OBVIOUS
<1> USE InputsAssumption DEF IInv, TakeVoice, At, Goes, Ends, Idle, Current, files, markers,
      products, ghosts, TypeOK, Run, Items, Analysis, Copy, Voice, Reuse, Proceeds
<1>1. Counted'
  BY DEF Counted
<1>2. StopSeen'
  BY DEF StopSeen
<1>3. Answers'
  BY DEF Answers, Buying
<1>4. CommissionStands'
  BY DEF CommissionStands, Commissioning, Commissioned, Buying
<1>5. ItemsStand'
  BY DEF ItemsStand, Founded, Buying, Commissioned, Commissioning, CommissionStands, Answers
<1>6. ManifestStands'
  BY DEF ManifestStands, AllThere, ItemsStand, Founded, Buying, Answers, Commissioned,
     CommissionStands
<1> QED
  BY <1>1, <1>2, <1>3, <1>4, <1>5, <1>6

LEMMA ReserveKeeps == IInv /\ TypeOK' /\ Reserve => IInv'
<1> SUFFICES ASSUME IInv, TypeOK', Reserve PROVE IInv'
  OBVIOUS
<1>1. /\ run.item = Current /\ Current \in Items /\ run \in Run /\ paid \in [Items -> Nat]
      /\ tries \in [Items -> 0 .. 2] /\ closed \in [Items -> BOOLEAN]
  BY DEF IInv, TypeOK, Run, Current
<1>2. Counted'
  BY <1>1 DEF IInv, Counted, Reserve, ghosts, markers, Goes, Ends, Idle, Run, At
<1>3. Answers'
  BY <1>1 DEF IInv, Answers, Reserve, ghosts, markers, products, Goes, Ends, Idle, Run, At
<1> USE InputsAssumption DEF IInv, Reserve, At, Goes, Ends, Idle, Current, files, markers,
      products, ghosts, TypeOK, Run, Items, Analysis, Copy, Voice
<1>4. StopSeen'
  BY DEF StopSeen
<1>5. CommissionStands'
  BY DEF CommissionStands, Commissioning, Commissioned, Buying
<1>6. ItemsStand'
  BY DEF ItemsStand, Founded, Buying, Commissioned, Commissioning, CommissionStands, Answers
<1>7. ManifestStands'
  BY DEF ManifestStands, AllThere, ItemsStand, Founded, Buying, Answers, Commissioned,
     CommissionStands
<1> QED
  BY <1>2, <1>3, <1>4, <1>5, <1>6, <1>7

LEMMA SpendKeeps == IInv /\ TypeOK' /\ Spend => IInv'
<1> SUFFICES ASSUME IInv, TypeOK', Spend PROVE IInv'
  OBVIOUS
<1> USE InputsAssumption DEF IInv, Spend, At, Goes, Ends, Idle, Current, files, markers,
      products, ghosts, TypeOK, Run, Items, Analysis, Copy, Voice, Again
<1>1. Counted'
  BY DEF Counted
<1>2. StopSeen'
  BY DEF StopSeen
<1>3. Answers'
  BY DEF Answers, Buying
<1>4. CommissionStands'
  BY DEF CommissionStands, Commissioning, Commissioned, Buying
<1>5. ItemsStand'
  BY DEF ItemsStand, Founded, Buying, Commissioned, Commissioning, CommissionStands, Answers
<1>6. ManifestStands'
  BY DEF ManifestStands, AllThere, ItemsStand, Founded, Buying, Answers, Commissioned,
     CommissionStands
<1> QED
  BY <1>1, <1>2, <1>3, <1>4, <1>5, <1>6

LEMMA CallUnmadeKeeps == IInv /\ TypeOK' /\ CallUnmade => IInv'
<1> SUFFICES ASSUME IInv, TypeOK', CallUnmade PROVE IInv'
  OBVIOUS
<1> USE InputsAssumption DEF IInv, CallUnmade, At, Goes, Ends, Idle, Current, files, markers,
      products, ghosts, TypeOK, Run, Items, Analysis, Copy, Voice, Again
<1>1. Counted'
  BY DEF Counted
<1>2. StopSeen'
  BY DEF StopSeen
<1>3. Answers'
  BY DEF Answers, Buying
<1>4. CommissionStands'
  BY DEF CommissionStands, Commissioning, Commissioned, Buying
<1>5. ItemsStand'
  BY DEF ItemsStand, Founded, Buying, Commissioned, Commissioning, CommissionStands, Answers
<1>6. ManifestStands'
  BY DEF ManifestStands, AllThere, ItemsStand, Founded, Buying, Answers, Commissioned,
     CommissionStands
<1> QED
  BY <1>1, <1>2, <1>3, <1>4, <1>5, <1>6

LEMMA CallKeeps == IInv /\ TypeOK' /\ Call => IInv'
<1> SUFFICES ASSUME IInv, TypeOK', Call PROVE IInv'
  OBVIOUS
<1>1. /\ run.item = Current /\ Current \in Items /\ run \in Run /\ paid \in [Items -> Nat]
      /\ tries \in [Items -> 0 .. 2]
  BY DEF IInv, TypeOK, Run, Current
<1>2. Counted'
  BY <1>1 DEF IInv, Counted, Call, markers, Goes, At, Run
<1> USE InputsAssumption DEF IInv, Call, At, Goes, Ends, Idle, Current, files, markers,
      products, ghosts, TypeOK, Run, Items, Analysis, Copy, Voice
<1>3. StopSeen'
  BY DEF StopSeen
<1>4. Answers'
  BY DEF Answers, Buying
<1>5. CommissionStands'
  BY DEF CommissionStands, Commissioning, Commissioned, Buying
<1>6. ItemsStand'
  BY DEF ItemsStand, Founded, Buying, Commissioned, Commissioning, CommissionStands, Answers
<1>7. ManifestStands'
  BY DEF ManifestStands, AllThere, ItemsStand, Founded, Buying, Answers, Commissioned,
     CommissionStands
<1> QED
  BY <1>2, <1>3, <1>4, <1>5, <1>6, <1>7

LEMMA CallFailsKeeps == IInv /\ TypeOK' /\ CallFails => IInv'
<1> SUFFICES ASSUME IInv, TypeOK', CallFails PROVE IInv'
  OBVIOUS
<1> USE InputsAssumption DEF IInv, CallFails, At, Goes, Ends, Idle, Current, files, markers,
      products, ghosts, TypeOK, Run, Items, Analysis, Copy, Voice, Again
<1>1. Counted'
  BY DEF Counted
<1>2. StopSeen'
  BY DEF StopSeen
<1>3. Answers'
  BY DEF Answers, Buying
<1>4. CommissionStands'
  BY DEF CommissionStands, Commissioning, Commissioned, Buying
<1>5. ItemsStand'
  BY DEF ItemsStand, Founded, Buying, Commissioned, Commissioning, CommissionStands, Answers
<1>6. ManifestStands'
  BY DEF ManifestStands, AllThere, ItemsStand, Founded, Buying, Answers, Commissioned,
     CommissionStands
<1> QED
  BY <1>1, <1>2, <1>3, <1>4, <1>5, <1>6

LEMMA CallAnswersKeeps == IInv /\ TypeOK' /\ CallAnswers => IInv'
<1> SUFFICES ASSUME IInv, TypeOK', CallAnswers PROVE IInv'
  OBVIOUS
<1> USE InputsAssumption DEF IInv, CallAnswers, At, Goes, Ends, Idle, Current, files,
      markers, products, ghosts, TypeOK, Run, Items, Analysis, Copy, Voice
<1>1. Counted'
  BY DEF Counted
<1>2. StopSeen'
  BY DEF StopSeen
<1>3. Answers'
  BY DEF Answers, Buying
<1>4. CommissionStands'
  BY DEF CommissionStands, Commissioning, Commissioned, Buying
<1>5. ItemsStand'
  BY DEF ItemsStand, Founded, Buying, Commissioned, Commissioning, CommissionStands, Answers
<1>6. ManifestStands'
  BY DEF ManifestStands, AllThere, ItemsStand, Founded, Buying, Answers, Commissioned,
     CommissionStands
<1> QED
  BY <1>1, <1>2, <1>3, <1>4, <1>5, <1>6

LEMMA FinalizeAnalysisKeeps == IInv /\ TypeOK' /\ FinalizeAnalysis => IInv'
<1> SUFFICES ASSUME IInv, TypeOK', FinalizeAnalysis PROVE IInv'
  OBVIOUS
<1> USE InputsAssumption DEF IInv, FinalizeAnalysis, At, Goes, Ends, Idle, Current, files,
      markers, products, ghosts, TypeOK, Run, Items, Analysis, Copy, Voice, Writes, Loses,
      Proceeds
<1>1. Counted'
  BY DEF Counted
<1>2. StopSeen'
  BY DEF StopSeen
<1>3. Answers'
  BY DEF Answers, Buying
<1>4. CommissionStands'
  BY DEF CommissionStands, Commissioning, Commissioned, Buying
<1>5. ItemsStand'
  BY DEF ItemsStand, Founded, Buying, Commissioned, Commissioning, CommissionStands, Answers
<1>6. ManifestStands'
  BY DEF ManifestStands, AllThere, ItemsStand, Founded, Buying, Answers, Commissioned,
     CommissionStands
<1> QED
  BY <1>1, <1>2, <1>3, <1>4, <1>5, <1>6

LEMMA FinalizeCopyKeeps == IInv /\ TypeOK' /\ FinalizeCopy => IInv'
<1> SUFFICES ASSUME IInv, TypeOK', FinalizeCopy PROVE IInv'
  OBVIOUS
<1>1. /\ run.item = Copy /\ run.pc = "finalize" /\ result[Copy] = "absent"
      /\ copy.turns \in 0 .. MaxTurns
  BY DEF IInv, TypeOK, FinalizeCopy, Current, At, ItemsStand, Buying
<1>2. ~AllThere
  BY <1>1 DEF AllThere, Copy, Voice
<1>3. manifest # "whole" /\ ~built
  BY <1>2 DEF IInv, ManifestStands
<1>4. run'.pc \in {"idle", "item"}
  BY DEF FinalizeCopy, Loses, Ends, Idle, Proceeds, Copy, Analysis, Voice
<1>5. ManifestStands'
  BY <1>3, <1>4 DEF ManifestStands, FinalizeCopy, files
<1> USE InputsAssumption DEF IInv, FinalizeCopy, At, Goes, Ends, Idle, Current, files,
      markers, products, ghosts, TypeOK, Run, Items, Analysis, Copy, Voice, Writes, Loses,
      Proceeds
<1>6. Counted'
  BY DEF Counted
<1>7. StopSeen'
  BY DEF StopSeen
<1>8. Answers'
  BY DEF Answers, Buying
<1>9. CommissionStands'
  BY DEF CommissionStands, Commissioning, Commissioned, Buying
<1>10. ItemsStand'
  BY DEF ItemsStand, Founded, Buying, Commissioned, Commissioning, CommissionStands, Answers
<1> QED
  BY <1>5, <1>6, <1>7, <1>8, <1>9, <1>10

LEMMA FinalizeVoiceKeeps == IInv /\ TypeOK' /\ FinalizeVoice => IInv'
<1> SUFFICES ASSUME IInv, TypeOK', FinalizeVoice PROVE IInv'
  OBVIOUS
<1>1. \A i \in Items : Founded(i) => Founded(i)'
  BY FoundedStays DEF FinalizeVoice, files, IInv, TypeOK
<1>2. run \in Run
  BY DEF IInv, TypeOK
<1>3. ItemsStand'
  BY <1>1, <1>2 DEF IInv, ItemsStand, Buying, FinalizeVoice, ghosts, Goes, Ends, Idle, At, Run
<1> USE InputsAssumption DEF IInv, FinalizeVoice, At, Goes, Ends, Idle, Current, files,
      markers, products, ghosts, TypeOK, Run, Items, Analysis, Copy, Voice
<1>4. Counted'
  BY DEF Counted
<1>5. StopSeen'
  BY DEF StopSeen
<1>6. Answers'
  BY DEF Answers, Buying
<1>7. CommissionStands'
  BY DEF CommissionStands, Commissioning, Commissioned, Buying
<1>8. ManifestStands'
  BY DEF ManifestStands, AllThere, ItemsStand, Founded, Buying, Answers, Commissioned,
     CommissionStands
<1> QED
  BY <1>3, <1>4, <1>5, <1>6, <1>7, <1>8

LEMMA RecordKeeps == IInv /\ TypeOK' /\ Record => IInv'
<1> SUFFICES ASSUME IInv, TypeOK', Record PROVE IInv'
  OBVIOUS
<1>1. PICK c \in Items : c = Current
  BY DEF IInv, TypeOK, Run, Current
<1>2. /\ run.item = c /\ run.pc = "record" /\ run \in Run
      /\ copy.turns \in 0 .. MaxTurns /\ copy' = copy
      /\ result[c] = "absent" /\ Founded(c) /\ result \in [Items -> Files] /\ ~built
  BY <1>1 DEF IInv, TypeOK, Run, Current, Record, At, ItemsStand, Buying, ManifestStands
<1>3. \A j \in Items : result[j] = "whole" => result'[j] = "whole"
  BY <1>1, <1>2 DEF Record, Writes, Loses
<1>4. \A i \in Items : Founded(i) => Founded(i)'
  BY <1>2, <1>3, FoundedStays DEF Record, files
<1>5. AllThere => AllThere'
  <2>1. Copy .. Voice(copy.turns) \subseteq Items /\ Analysis \in Items
    BY <1>2, InputsAssumption DEF Items, Copy, Voice, Analysis
  <2> QED
    BY <1>2, <1>3, <2>1 DEF AllThere, Record
<1>6. ASSUME Ends PROVE ItemsStand' /\ ManifestStands'
  BY <1>2, <1>4, <1>5, <1>6
     DEF Ends, Idle, IInv, ItemsStand, ManifestStands, Buying, Record, ghosts, files
<1>7. ASSUME Writes(c) /\ Proceeds(c, copy.turns, copy.over)
      PROVE  ItemsStand' /\ ManifestStands'
  <2>1. result'[c] = "whole" /\ Founded(c)'
    BY <1>2, <1>4, <1>7 DEF Writes
  <2>2. result'[Copy] = "whole" => Founded(Copy)'
    <3>1. CASE c = Copy
      BY <3>1, <2>1
    <3>2. CASE c # Copy
      <4>1. Copy \in Items /\ (result'[Copy] = "whole" => result[Copy] = "whole")
        BY <1>2, <1>7, <3>2, InputsAssumption DEF Items, Copy, Writes
      <4> QED
        BY <4>1, <1>4 DEF IInv, Answers, ItemsStand
    <3> QED
      BY <3>1, <3>2
  <2> QED
    BY <1>2, <1>4, <1>5, <1>7, <2>1, <2>2, ProceedingStands
       DEF IInv, ItemsStand, ManifestStands, Buying, Record, ghosts, files
<1>8. ItemsStand' /\ ManifestStands'
  BY <1>1, <1>6, <1>7 DEF Record, Loses
<1> USE InputsAssumption DEF IInv, Record, At, Goes, Ends, Idle, Current, files, markers,
      products, ghosts, TypeOK, Run, Items, Analysis, Copy, Voice, Writes, Loses, Proceeds
<1>9. Counted'
  BY DEF Counted
<1>10. StopSeen'
  BY DEF StopSeen
<1>11. Answers'
  BY DEF Answers, Buying
<1>12. CommissionStands'
  BY DEF CommissionStands, Commissioning, Commissioned, Buying
<1> QED
  BY <1>8, <1>9, <1>10, <1>11, <1>12

LEMMA WriteManifestKeeps == IInv /\ TypeOK' /\ WriteManifest => IInv'
<1> SUFFICES ASSUME IInv, TypeOK', WriteManifest PROVE IInv'
  OBVIOUS
<1>1. AllThere /\ AllThere'
  BY DEF AllThere, WriteManifest, IInv, ManifestStands, products, At
<1>2. run \in Run /\ ~built
  BY DEF IInv, TypeOK, ManifestStands, WriteManifest, At
<1>3. ManifestStands'
  BY <1>1, <1>2 DEF ManifestStands, WriteManifest, Goes, Ends, Idle, At, Run
<1> USE InputsAssumption DEF IInv, WriteManifest, At, Goes, Ends, Idle, Current, files,
      markers, products, ghosts, TypeOK, Run, Items, Analysis, Copy, Voice
<1>4. Counted'
  BY DEF Counted
<1>5. StopSeen'
  BY DEF StopSeen
<1>6. Answers'
  BY DEF Answers, Buying
<1>7. CommissionStands'
  BY DEF CommissionStands, Commissioning, Commissioned, Buying
<1>8. ItemsStand'
  BY DEF ItemsStand, Founded, Buying, Commissioned, Commissioning, CommissionStands, Answers
<1> QED
  BY <1>3, <1>4, <1>5, <1>6, <1>7, <1>8

LEMMA CompileKeeps == IInv /\ TypeOK' /\ Compile => IInv'
<1> SUFFICES ASSUME IInv, TypeOK', Compile PROVE IInv'
  OBVIOUS
<1> USE InputsAssumption DEF IInv, Compile, At, Goes, Ends, Idle, Current, files, markers,
      products, ghosts, TypeOK, Run, Items, Analysis, Copy, Voice
<1>1. Counted'
  BY DEF Counted
<1>2. StopSeen'
  BY DEF StopSeen
<1>3. Answers'
  BY DEF Answers, Buying
<1>4. CommissionStands'
  BY DEF CommissionStands, Commissioning, Commissioned, Buying
<1>5. ItemsStand'
  BY DEF ItemsStand, Founded, Buying, Commissioned, Commissioning, CommissionStands, Answers
<1>6. ManifestStands'
  BY DEF ManifestStands, AllThere, ItemsStand, Founded, Buying, Answers, Commissioned,
     CommissionStands
<1> QED
  BY <1>1, <1>2, <1>3, <1>4, <1>5, <1>6

LEMMA HandoverKeeps == IInv /\ TypeOK' /\ Handover => IInv'
<1> SUFFICES ASSUME IInv, TypeOK', Handover PROVE IInv'
  OBVIOUS
<1> USE InputsAssumption DEF IInv, Handover, At, Goes, Ends, Idle, Current, files, markers,
      products, ghosts, TypeOK, Run, Items, Analysis, Copy, Voice
<1>1. Counted'
  BY DEF Counted
<1>2. StopSeen'
  BY DEF StopSeen
<1>3. Answers'
  BY DEF Answers, Buying
<1>4. CommissionStands'
  BY DEF CommissionStands, Commissioning, Commissioned, Buying
<1>5. ItemsStand'
  BY DEF ItemsStand, Founded, Buying, Commissioned, Commissioning, CommissionStands, Answers
<1>6. ManifestStands'
  BY DEF ManifestStands, AllThere, ItemsStand, Founded, Buying, Answers, Commissioned,
     CommissionStands
<1> QED
  BY <1>1, <1>2, <1>3, <1>4, <1>5, <1>6

LEMMA StopKeeps == IInv /\ TypeOK' /\ Stop => IInv'
<1> SUFFICES ASSUME IInv, TypeOK', Stop PROVE IInv'
  OBVIOUS
<1> USE InputsAssumption DEF IInv, Stop, At, Goes, Ends, Idle, Current, files, markers,
      products, ghosts, TypeOK, Run, Items, Analysis, Copy, Voice
<1>1. Counted'
  BY DEF Counted
<1>2. StopSeen'
  BY DEF StopSeen
<1>3. Answers'
  BY DEF Answers, Buying
<1>4. CommissionStands'
  BY DEF CommissionStands, Commissioning, Commissioned, Buying
<1>5. ItemsStand'
  BY DEF ItemsStand, Founded, Buying, Commissioned, Commissioning, CommissionStands, Answers
<1>6. ManifestStands'
  BY DEF ManifestStands, AllThere, ItemsStand, Founded, Buying, Answers, Commissioned,
     CommissionStands
<1> QED
  BY <1>1, <1>2, <1>3, <1>4, <1>5, <1>6

LEMMA CrashKeeps == IInv /\ TypeOK' /\ Crash => IInv'
<1> SUFFICES ASSUME IInv, TypeOK', Crash PROVE IInv'
  OBVIOUS
<1> USE InputsAssumption DEF IInv, Crash, At, Goes, Ends, Idle, Current, files, markers,
      products, ghosts, TypeOK, Run, Items, Analysis, Copy, Voice
<1>1. Counted'
  BY DEF Counted
<1>2. StopSeen'
  BY DEF StopSeen
<1>3. Answers'
  BY DEF Answers, Buying
<1>4. CommissionStands'
  BY DEF CommissionStands, Commissioning, Commissioned, Buying
<1>5. ItemsStand'
  BY DEF ItemsStand, Founded, Buying, Commissioned, Commissioning, CommissionStands, Answers
<1>6. ManifestStands'
  BY DEF ManifestStands, AllThere, ItemsStand, Founded, Buying, Answers, Commissioned,
     CommissionStands
<1> QED
  BY <1>1, <1>2, <1>3, <1>4, <1>5, <1>6

LEMMA StutterKeeps == IInv /\ UNCHANGED vars => IInv'
  BY DEF vars, IInv, TypeOK, Counted, StopSeen, Answers, CommissionStands, ItemsStand, Founded,
     ManifestStands, AllThere, Run

-----------------------------------------------------------------------------
(* The theorems. *)

LEMMA InitIInv == Init => IInv
<1> USE InputsAssumption DEF Init, Idle, Items, Analysis
<1>1. Init => run \in Run
  BY DEF Run, Steps
<1>2. ASSUME Init PROVE TypeOK
  <2>1. copy \in [turns : 0 .. MaxTurns, over : BOOLEAN]
    BY <1>2
  <2>2. {reference, stopped, cached, built} \subseteq BOOLEAN /\ closed \in [Items -> BOOLEAN]
    BY <1>2
  <2>3. /\ tries \in [Items -> 0 .. 2] /\ audio \in [Items -> BOOLEAN]
        /\ result \in [Items -> Files] /\ paid \in [Items -> Nat]
    BY <1>2 DEF Files
  <2> QED
    BY <1>1, <1>2, <2>1, <2>2, <2>3 DEF TypeOK, Files
<1>3. Init => Counted /\ StopSeen /\ Answers
  BY DEF Counted, StopSeen, Answers
<1>4. Init => CommissionStands /\ ItemsStand /\ ManifestStands
  BY DEF CommissionStands, Commissioning, Commissioned, ItemsStand, Buying, ManifestStands
<1> QED
  BY <1>2, <1>3, <1>4 DEF IInv

LEMMA StepIInv == IInv /\ [Next]_vars => IInv'
<1> SUFFICES ASSUME IInv, [Next]_vars PROVE IInv'
  OBVIOUS
<1>1. TypeOK'
  BY Typing DEF IInv
<1> QED
  BY <1>1, StutterKeeps, BeginKeeps, ReadCommissionKeeps, LocalizeImageKeeps, FindVideoKeeps,
     CopyVideoKeeps, FetchVideoKeeps, OtherOrdersKeeps, WriteCommissionKeeps, GateKeeps,
     TakeManifestKeeps, TakeAnalysisKeeps, SampleKeeps, TakeCopyKeeps, TakeVoiceKeeps,
     ReserveKeeps, SpendKeeps, CallUnmadeKeeps, CallKeeps, CallFailsKeeps, CallAnswersKeeps,
     FinalizeAnalysisKeeps, FinalizeCopyKeeps, FinalizeVoiceKeeps, RecordKeeps,
     WriteManifestKeeps, CompileKeeps, HandoverKeeps, StopKeeps, CrashKeeps
     DEF Next, RunStep, Localization

LEMMA AlwaysIInv == Spec => []IInv
  BY InitIInv, StepIInv, PTL DEF Spec

\* What the suppliers of an order can cost is bounded: whatever crashes, torn files and
\* runs follow each other, an item is called for at most as often as its markers say,
\* and after a stop at most one call leaves (callSellerProviderTwice and its gates).
THEOREM CostBounded == Spec => []SpendingBounded
<1>1. IInv => SpendingBounded
  BY DEF IInv, SpendingBounded, Counted, PaidTwiceAtMost, StopSeen, StopEndsBuying
<1> QED
  BY <1>1, AlwaysIInv, PTL

\* Nothing is bought or built on what an earlier run left torn or did not finish
\* (hypit-adapter.mjs #context, prepare).
THEOREM BuiltOnlyOnWhole == Spec => []BuiltOnWhole
<1>1. ASSUME IInv PROVE BuiltOnWhole
  <2>1. Copy .. Voice(copy.turns) \subseteq Items
    BY <1>1, InputsAssumption DEF IInv, TypeOK, Items, Copy, Voice
  <2> QED
    BY <1>1, <2>1 DEF IInv, BuiltOnWhole, ItemsStand, ManifestStands, AllThere, Answers
<1> QED
  BY <1>1, AlwaysIInv, PTL

\* An item whose answer has arrived is never called for again, whatever is lost after it.
THEOREM AnswersFinal == Spec => AnswerNotRebought
<1>1. ASSUME IInv, [Next]_vars, NEW i \in Items, closed[i] PROVE paid'[i] = paid[i]
  <2>1. CASE Call
    BY <1>1, <2>1 DEF IInv, TypeOK, Answers, Call, At, Current
  <2>2. CASE ~Call
    BY <1>1, <2>2 DEF Next, RunStep, Localization, vars, ghosts, Begin, ReadCommission,
       LocalizeImage, FindVideo, CopyVideo, FetchVideo, OtherOrders, WriteCommission, Gate,
       TakeManifest, TakeAnalysis, Sample, TakeCopy, TakeVoice, Reserve, Spend, CallUnmade,
       CallFails, CallAnswers, FinalizeAnalysis, FinalizeCopy, FinalizeVoice, Record,
       WriteManifest, Compile, Handover, Stop, Crash
  <2> QED
    BY <2>1, <2>2
<1>2. IInv /\ [Next]_vars => [\A item \in Items : closed[item] => paid'[item] = paid[item]]_vars
  BY <1>1
<1> QED
  BY <1>2, AlwaysIInv, PTL DEF Spec, AnswerNotRebought
=============================================================================
