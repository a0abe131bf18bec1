------------------------------ MODULE FaultLog ------------------------------
(***************************************************************************)
(* The fault log of cli/flog.cpp: a ring of entries in retained memory,    *)
(* valid when its two counters are complements.  Every thread adds to it,  *)
(* and there is no lock.  The main thread initialises it at boot, and can  *)
(* clear it from the console.  A reset keeps it as it is.                  *)
(*                                                                         *)
(* A fault is a number, in the order the calls begin; an entry is three    *)
(* fields, each of which a call stores by itself, and which are modelled   *)
(* by the fault they belong to.  nNumEntries is modelled by the counter it *)
(* is the complement of, NoCount if it is that of none that occurs: memory *)
(* that was never written, or zero.                                        *)
(*                                                                         *)
(* "Defect" marks a mutation of the definition after it.                   *)
(***************************************************************************)
EXTENDS Integers, Sequences

CONSTANTS
  LogThreads,     (* the threads that add faults                              *)
  LogMain,        (* the main thread, one of them                             *)
  LogSize,        (* FLOG_NUM_ENTRIES                                         *)
  MaxFaults       (* bounds the calls                                         *)

ASSUME LogAssumption ==
  LogMain \in LogThreads /\ LogSize \in Nat \ {0} /\ MaxFaults \in Nat

VARIABLES
  numEntries, nNumEntries, flogEntries,     (* flogData, retained             *)
  logPc,          (* where each thread is in flog.cpp                         *)
  fault, slot,    (* its argument and the index of its pEntry                 *)
  counter,        (* what it has read of numEntries, for a store              *)
  calls,          (* the calls begun                                          *)
  recent,         (* the faults that should be in the log (history)           *)
  spoilt          (* calls have overlapped, or a reset has interrupted a call *)
                  (* that overwrites the oldest entry (history)               *)

flogData  == <<numEntries, nNumEntries, flogEntries>>
logLocals == <<fault, slot, counter>>
logVars   == <<flogData, logPc, logLocals, calls, recent, spoilt>>

NoCount == -1
Slots   == 0 .. LogSize - 1
Entry   == [timestamp_ms : 0 .. MaxFaults, code : 0 .. MaxFaults, param : 0 .. MaxFaults]

\* The entry of a fault, and memory that was cleared.
Whole(n) == [timestamp_ms |-> n, code |-> n, param |-> n]
NoEntry  == Whole(0)

FLOG_IsInitialized == nNumEntries = numEntries

InAdd(t) == logPc[t] \notin {"idle", "boot", "bootClear", "clear", "clearCount"}

LogGoto(t, p) == logPc' = [logPc EXCEPT ![t] = p]

LogInit ==
  /\ numEntries = 0 /\ nNumEntries = NoCount
  /\ flogEntries = [s \in Slots |-> NoEntry]
  /\ logPc = [t \in LogThreads |-> IF t = LogMain THEN "boot" ELSE "idle"]
  /\ fault = [t \in LogThreads |-> 0]
  /\ slot = [t \in LogThreads |-> 0] /\ counter = [t \in LogThreads |-> 0]
  /\ calls = 0 /\ recent = <<>> /\ spoilt = FALSE

-----------------------------------------------------------------------------

\* FLOG_AddError() is called; other threads run when setup() has initialised the log.
CallAddError(t) ==
  /\ logPc[t] = "idle" /\ logPc[LogMain] # "boot" /\ calls < MaxFaults
  /\ calls' = calls + 1
  /\ fault' = [fault EXCEPT ![t] = calls']
  /\ spoilt' = (spoilt \/ \E u \in LogThreads \ {t} : logPc[u] # "idle")
  /\ LogGoto(t, "check")
  /\ UNCHANGED <<flogData, slot, counter, recent>>

\* FLOG_Initialize() at boot, and the checks of FLOG_AddError().
Check(t) ==
  /\ logPc[t] \in {"boot", "check"}
  /\ LogGoto(t, CASE ~FLOG_IsInitialized /\ logPc[t] = "boot" -> "bootClear"
                  [] ~FLOG_IsInitialized /\ logPc[t] = "check" -> "addClear"
                  [] FLOG_IsInitialized /\ logPc[t] = "boot" -> "idle"
                  [] FLOG_IsInitialized /\ logPc[t] = "check" -> "slot")
  /\ UNCHANGED <<flogData, logLocals, calls, recent, spoilt>>

\* CLI_clearFLOG(): the command is typed.
CallClear ==
  /\ logPc[LogMain] = "idle"
  /\ LogGoto(LogMain, "clear")
  /\ UNCHANGED <<flogData, logLocals, calls, recent, spoilt>>

\* FLOG_ClearLog(): the memset, and the count that makes the log valid.
Memset(t) ==
  /\ logPc[t] \in {"bootClear", "addClear", "clear"}
  /\ numEntries' = 0 /\ nNumEntries' = NoCount
  /\ flogEntries' = [s \in Slots |-> NoEntry]
  /\ LogGoto(t, IF logPc[t] = "addClear" THEN "addClearCount" ELSE "clearCount")
  /\ IF logPc[t] = "clear"
     THEN recent' = <<>> /\ spoilt' = (\E u \in LogThreads \ {t} : logPc[u] # "idle")
     ELSE UNCHANGED <<recent, spoilt>>
  /\ UNCHANGED <<logLocals, calls>>

ClearCount(t) ==
  /\ logPc[t] \in {"addClearCount", "clearCount"}
  /\ nNumEntries' = numEntries
  /\ LogGoto(t, IF logPc[t] = "addClearCount" THEN "slot" ELSE "idle")
  /\ UNCHANGED <<numEntries, flogEntries, logLocals, calls, recent, spoilt>>

\* Defect: the entry is counted before it is written.
AfterCountFirst(p) ==
  CASE p = "slot" -> "load" [] p = "load" -> "store" [] p = "store" -> "loadCount"
    [] p = "loadCount" -> "time" [] p = "time" -> "code" [] p = "code" -> "param"
    [] p = "param" -> "storeCount"

\* The order in which FLOG_AddError() accesses the log.
After(p) ==
  CASE p = "slot" -> "time" [] p = "time" -> "code" [] p = "code" -> "param"
    [] p = "param" -> "load" [] p = "load" -> "store" [] p = "store" -> "loadCount"
    [] p = "loadCount" -> "storeCount"

\* Defect: the index is not reduced to the size of the ring.
TakeSlotUnmasked(t) ==
  /\ logPc[t] = "slot"
  /\ slot' = [slot EXCEPT ![t] = numEntries]
  /\ LogGoto(t, After("slot"))
  /\ UNCHANGED <<flogData, fault, counter, calls, recent, spoilt>>

TakeSlot(t) ==
  /\ logPc[t] = "slot"
  /\ slot' = [slot EXCEPT ![t] = numEntries % LogSize]
  /\ LogGoto(t, After("slot"))
  /\ UNCHANGED <<flogData, fault, counter, calls, recent, spoilt>>

WriteField(t) ==
  /\ \/ logPc[t] = "time"
          /\ flogEntries' = [flogEntries EXCEPT ![slot[t]].timestamp_ms = fault[t]]
     \/ logPc[t] = "code" /\ flogEntries' = [flogEntries EXCEPT ![slot[t]].code = fault[t]]
     \/ logPc[t] = "param" /\ flogEntries' = [flogEntries EXCEPT ![slot[t]].param = fault[t]]
  /\ LogGoto(t, After(logPc[t]))
  /\ UNCHANGED <<numEntries, nNumEntries, logLocals, calls, recent, spoilt>>

LoadCounter(t) ==
  /\ logPc[t] \in {"load", "loadCount"}
  /\ counter' = [counter EXCEPT ![t] = numEntries]
  /\ LogGoto(t, After(logPc[t]))
  /\ UNCHANGED <<flogData, fault, slot, calls, recent, spoilt>>

\* numEntries++.
StoreCounter(t) ==
  /\ logPc[t] = "store"
  /\ numEntries' = counter[t] + 1
  /\ LogGoto(t, After("store"))
  /\ UNCHANGED <<nNumEntries, flogEntries, logLocals, calls, recent, spoilt>>

\* The complement: the fault is in the log.
StoreCount(t) ==
  /\ logPc[t] = "storeCount"
  /\ nNumEntries' = counter[t]
  /\ recent' = Append(recent, fault[t])
  /\ LogGoto(t, "idle")
  /\ UNCHANGED <<numEntries, flogEntries, logLocals, calls, spoilt>>

\* A reset.  Between the two counters it costs the whole log; while the oldest
\* entry is overwritten it spoils that.
LogReset ==
  /\ logPc' = [t \in LogThreads |-> IF t = LogMain THEN "boot" ELSE "idle"]
  /\ recent' = IF \E t \in LogThreads : logPc[t] \in {"loadCount", "storeCount"}
               THEN <<>> ELSE recent
  /\ spoilt' = (spoilt \/ \E t \in LogThreads :
                           /\ numEntries >= LogSize
                           /\ logPc[t] \in {"code", "param", "load", "store"})
  /\ UNCHANGED <<flogData, logLocals, calls>>

LogStep(t) ==
  \/ CallAddError(t) \/ Check(t) \/ Memset(t) \/ ClearCount(t) \/ TakeSlot(t)
  \/ WriteField(t) \/ LoadCounter(t) \/ StoreCounter(t) \/ StoreCount(t)

LogNext == (\E t \in LogThreads : LogStep(t)) \/ CallClear \/ LogReset

LogSpec == LogInit /\ [][LogNext]_logVars

-----------------------------------------------------------------------------

LogPcs == {"idle", "boot", "bootClear", "clear", "clearCount", "check", "addClear",
           "addClearCount", "slot", "time", "code", "param", "load", "store", "loadCount",
           "storeCount"}

\* The type invariant.
LogTypeOK ==
  /\ numEntries \in 0 .. MaxFaults /\ nNumEntries \in 0 .. MaxFaults \cup {NoCount}
  /\ flogEntries \in [Slots -> Entry]
  /\ logPc \in [LogThreads -> LogPcs]
  /\ fault \in [LogThreads -> 0 .. MaxFaults] /\ slot \in [LogThreads -> Slots]
  /\ counter \in [LogThreads -> 0 .. MaxFaults] /\ calls \in 0 .. MaxFaults
  /\ recent \in Seq(1 .. MaxFaults) /\ spoilt \in BOOLEAN

\* What FLOG_DisplayLog() shows.
Shown ==
  LET first == IF numEntries > LogSize THEN numEntries - LogSize ELSE 0
  IN  [i \in 1 .. numEntries - first |-> flogEntries[(first + i - 1) % LogSize]]

Last(n, s) == SubSeq(s, IF Len(s) > n THEN Len(s) - n + 1 ELSE 1, Len(s))

\* The log survives resets (flog.cpp:153): when no call is under way, a valid log
\* shows the last faults that were added since it was cleared, whole and in order.  A
\* reset loses the fault whose call it interrupts; only one that falls between the
\* counters loses the others.  Excused are the logs that two threads have written
\* to at once, and an oldest entry that was being overwritten.
LogIsRecent ==
  (FLOG_IsInitialized /\ ~spoilt /\ \A t \in LogThreads : ~InAdd(t))
    => Shown = [i \in DOMAIN Last(LogSize, recent) |-> Whole(Last(LogSize, recent)[i])]

=============================================================================
