-------------------------- MODULE SerialLinkProofs --------------------------
(***************************************************************************)
(* The two guarantees of the late-reply slot of SerialLink, for every      *)
(* number of requests, faults and pushes; and that the parser under it     *)
(* recovers every frame, for every stream and every cut of it into reads,  *)
(* and that discovery, which selects the node the link is opened at, never *)
(* guesses, for any number of devices.                                     *)
(***************************************************************************)
EXTENDS SerialLink, FrameParser, Discovery, SequenceTheorems, FiniteSetTheorems,
        WellFoundedInduction, TLAPS

Unique(seq) == \A i, j \in DOMAIN seq :
    i # j => seq[i].id # seq[j].id \/ seq[i].id = 0

TypeInv ==
    /\ inflight \in Commands \cup {None} /\ timedOut \in Commands \cup {None}
    /\ reply \in BridgeFrames \cup {None}
    /\ down \in BOOLEAN /\ quiet \in BOOLEAN /\ answeredLate \in BOOLEAN
    /\ readerFinished \in BOOLEAN /\ overlapped \in BOOLEAN
    /\ reader \in {"reading", "leaving", "gone"}
    /\ pc \in {"idle", "settle", "register", "write", "await", "closing", "closed"}
    /\ command \in Commands \cup {None}
    /\ owed \in Seq(BridgeFrames)
    /\ issued \in 0 .. MaxTransactions
    /\ bridgeFaults \in Nat /\ pushes \in Nat /\ timeouts \in Nat

\* Where a request is between its registration and its end.
InTransaction == pc \in {"write", "await"}

\* The waiter is the transaction's: it waits for the command until a reply is
\* matched, and while the reader reads, a transaction's link is up.
Waiting ==
    /\ pc # "idle" /\ pc \notin {"closing", "closed"} => command \in Commands
    /\ inflight # None => InTransaction /\ inflight = command
    /\ InTransaction => (inflight = None <=> reply # None)
    /\ reader = "reading" => ~readerFinished
    /\ reader = "reading" /\ InTransaction => ~down

\* What the bridge owes: one frame for each request at most, of its command.
Owing ==
    /\ Unique(owed)
    /\ \A i \in DOMAIN owed :
          /\ owed[i].id <= issued
          /\ owed[i].id = 0 => owed[i].cmd = GetInfo
          /\ pc = "write" => owed[i].id # issued
          /\ pc = "await" /\ owed[i].id = issued /\ issued # 0 => owed[i].cmd = command
    /\ InTransaction => issued # 0

\* A frame owed to a request that has ended, where that can mislead.
Stale(f) == f.id # 0 /\ f.cmd # GetInfo /\ ~(pc = "await" /\ f.id = issued)

\* At most one frame is stale; the slot expects it, and it comes before the
\* current request's own.
Expected ==
    reader = "reading" /\ ~overlapped =>
        \A i \in DOMAIN owed : Stale(owed[i]) =>
            /\ timedOut = owed[i].cmd
            /\ \A j \in DOMAIN owed : Stale(owed[j]) => i = j
            /\ pc = "await" => \E j \in DOMAIN owed : i < j /\ owed[j].id = issued

\* What the waiter holds is its own reply, and nothing more is owed to it.
OwnOnly ==
    ~overlapped /\ InTransaction /\ reply # None /\ command # GetInfo =>
        /\ pc = "await" /\ reply.id = issued
        /\ reader = "reading" => ~OwnReplyOwed

SlotInv == TypeInv /\ Waiting /\ Owing /\ Expected /\ OwnOnly

\* The timeouts the faults so far can still cause: the current request's, where
\* its reply is gone, and one more for a slot that is or will be armed.
Need ==
    IF pc = "await" /\ reply = None /\ ~OwnReplyOwed
    THEN IF answeredLate THEN 1 ELSE 2
    ELSE IF timedOut = None THEN 0 ELSE 1

Budgeted == ~readerFinished => timeouts + Need <= bridgeFaults + bridgeFaults
-----------------------------------------------------------------------------
(* Sequences                                                               *)

LEMMA Received ==
  ASSUME NEW s \in Seq(BridgeFrames), s # <<>>
  PROVE  /\ Tail(s) \in Seq(BridgeFrames) /\ Head(s) = s[1] /\ s[1] \in BridgeFrames
         /\ 1 \in DOMAIN s
         /\ \A i \in DOMAIN Tail(s) : i + 1 \in DOMAIN s /\ Tail(s)[i] = s[i + 1]
         /\ \A i \in DOMAIN s \ {1} : i - 1 \in DOMAIN Tail(s) /\ Tail(s)[i - 1] = s[i]
  OBVIOUS

LEMMA Sent ==
  ASSUME NEW s \in Seq(BridgeFrames), NEW f \in BridgeFrames
  PROVE  /\ Append(s, f) \in Seq(BridgeFrames)
         /\ Len(s) + 1 \in DOMAIN Append(s, f) /\ Append(s, f)[Len(s) + 1] = f
         /\ \A i \in DOMAIN s : /\ i \in DOMAIN Append(s, f) /\ Append(s, f)[i] = s[i]
                                /\ i < Len(s) + 1
         /\ \A i \in DOMAIN Append(s, f) : i \in DOMAIN s \/ i = Len(s) + 1
  OBVIOUS

LEMMA Lost ==
  ASSUME NEW s \in Seq(BridgeFrames), NEW k \in DOMAIN s
  PROVE  /\ RemoveAt(s, k) \in Seq(BridgeFrames)
         /\ \A i \in DOMAIN RemoveAt(s, k) :
               \E j \in DOMAIN s \ {k} : RemoveAt(s, k)[i] = s[j] /\ j = IF i < k THEN i ELSE i + 1
  <1> DEFINE before == SubSeq(s, 1, k - 1)
             after == SubSeq(s, k + 1, Len(s))
  <1>1. Len(s) \in Nat /\ k \in 1 .. Len(s) /\ \A i \in 1 .. Len(s) : s[i] \in BridgeFrames
    OBVIOUS
  <1>2. /\ before \in Seq(BridgeFrames) /\ Len(before) = k - 1
        /\ \A i \in 1 .. (k - 1) : before[i] = s[i]
    BY <1>1, SubSeqProperties
  <1>3. /\ after \in Seq(BridgeFrames) /\ Len(after) = Len(s) - k
        /\ \A i \in 1 .. (Len(s) - k) : after[i] = s[k + i]
    BY <1>1, SubSeqProperties
  <1>4. RemoveAt(s, k) = before \o after
    BY DEF RemoveAt
  <1> HIDE DEF before, after
  <1>5. /\ before \o after \in Seq(BridgeFrames) /\ Len(before \o after) = Len(s) - 1
        /\ \A i \in 1 .. (Len(s) - 1) : (before \o after)[i] =
              IF i <= k - 1 THEN before[i] ELSE after[i - (k - 1)]
    <2>1. /\ before \o after \in Seq(BridgeFrames)
          /\ Len(before \o after) = Len(before) + Len(after)
          /\ \A i \in 1 .. (Len(before) + Len(after)) : (before \o after)[i] =
                IF i <= Len(before) THEN before[i] ELSE after[i - Len(before)]
      BY <1>2, <1>3, ConcatProperties
    <2>2. Len(before) + Len(after) = Len(s) - 1
      BY <1>1, <1>2, <1>3
    <2> QED
      BY <1>2, <2>1, <2>2
  <1>6. ASSUME NEW i \in 1 .. (Len(s) - 1)
        PROVE  \E j \in DOMAIN s \ {k} :
                  (before \o after)[i] = s[j] /\ j = IF i < k THEN i ELSE i + 1
    <2>1. CASE i < k
      <3>1. i \in 1 .. (k - 1) /\ i \in DOMAIN s \ {k}
        BY <1>1, <2>1
      <3> QED
        BY <1>2, <1>5, <2>1, <3>1
    <2>2. CASE ~(i < k)
      <3>1. i - (k - 1) \in 1 .. (Len(s) - k) /\ k + (i - (k - 1)) = i + 1
            /\ i + 1 \in DOMAIN s \ {k} /\ ~(i <= k - 1)
        BY <1>1, <2>2
      <3>2. after[i - (k - 1)] = s[i + 1]
        BY <1>3, <3>1
      <3> QED
        BY <1>5, <2>2, <3>1, <3>2
    <2> QED
      BY <2>1, <2>2
  <1> HIDE DEF before, after
  <1>7. DOMAIN (before \o after) = 1 .. (Len(s) - 1)
    BY <1>5
  <1> QED
    BY <1>4, <1>5, <1>6, <1>7

LEMMA FramesOf ==
  ASSUME NEW s \in Seq(BridgeFrames), NEW i \in DOMAIN s
  PROVE  s[i] \in BridgeFrames /\ s[i].id \in 0 .. MaxTransactions /\ s[i].cmd \in Commands
  <1>1. s[i] \in BridgeFrames
    OBVIOUS
  <1> QED
    BY <1>1 DEF BridgeFrames

LEMMA OwnOwed ==
  /\ OwnReplyOwed <=> \E i \in DOMAIN owed : owed[i].id = issued
  /\ OwnReplyOwed' <=> \E i \in DOMAIN owed' : owed'[i].id = issued'
  BY DEF OwnReplyOwed, ToSet

-----------------------------------------------------------------------------
(* The slot                                                                *)

LEMMA SlotInit == LinkInit => SlotInv
  <1> SUFFICES ASSUME LinkInit PROVE SlotInv
    OBVIOUS
  <1>1. TypeInv /\ DOMAIN owed = {}
    <2>1. owed \in Seq(BridgeFrames) /\ DOMAIN owed = {}
      BY DEF LinkInit
    <2>2. issued \in 0 .. MaxTransactions /\ bridgeFaults \in Nat /\ pushes \in Nat /\ timeouts \in Nat
      BY SerialAssumption DEF LinkInit
    <2> QED
      BY <2>1, <2>2 DEF LinkInit, TypeInv
  <1>2. Waiting
    BY SerialAssumption DEF LinkInit, Waiting, InTransaction
  <1>3. Owing /\ Expected /\ OwnOnly
    BY <1>1 DEF LinkInit, Owing, Expected, OwnOnly, Unique, InTransaction
  <1> QED
    BY <1>1, <1>2, <1>3 DEF SlotInv

LEMMA BeginKeeps ==
  ASSUME SlotInv, NEW cmd \in Commands, Begin(cmd)
  PROVE  SlotInv'
  <1> USE SerialAssumption DEF SlotInv, Begin, Return, matcher, thread, caller, bridge
  <1>1. TypeInv'
    BY DEF TypeInv
  <1>2. Waiting'
    BY DEF TypeInv, Waiting, InTransaction
  <1>3. Owing'
    BY DEF TypeInv, Owing, Unique, InTransaction
  <1>4. Expected'
    BY DEF Waiting, InTransaction, Expected, Stale
  <1>5. OwnOnly'
    BY DEF Waiting, OwnOnly, InTransaction, OwnReplyOwed
  <1> QED
    BY <1>1, <1>2, <1>3, <1>4, <1>5

LEMMA SettleKeeps ==
  ASSUME SlotInv, Settle
  PROVE  SlotInv'
  <1> USE SerialAssumption DEF SlotInv, Settle, Return, matcher, thread, caller, bridge
  <1>1. TypeInv'
    BY DEF TypeInv
  <1>2. Waiting'
    BY DEF TypeInv, Waiting, InTransaction
  <1>3. Owing'
    BY DEF TypeInv, Owing, Unique, InTransaction
  <1>4. Expected'
    BY DEF Waiting, InTransaction, Expected, Stale
  <1>5. OwnOnly'
    BY DEF Waiting, OwnOnly, InTransaction, OwnReplyOwed
  <1> QED
    BY <1>1, <1>2, <1>3, <1>4, <1>5

LEMMA RegisterKeeps ==
  ASSUME SlotInv, Register
  PROVE  SlotInv'
  <1> USE SerialAssumption DEF SlotInv, Register, Return, matcher, thread, caller, bridge
  <1>1. TypeInv'
    <2>1. issued' \in 0 .. MaxTransactions
      BY DEF TypeInv
    <2> QED
      BY <2>1 DEF TypeInv
  <1>2. Waiting'
    BY DEF TypeInv, Waiting, InTransaction
  <1>3. Owing'
    BY FramesOf DEF TypeInv, Owing, Unique, InTransaction
  <1>4. Expected'
    BY DEF Waiting, InTransaction, Expected, Stale
  <1>5. OwnOnly'
    BY DEF Waiting, OwnOnly, InTransaction, OwnReplyOwed
  <1> QED
    BY <1>1, <1>2, <1>3, <1>4, <1>5

LEMMA WriteFailsKeeps ==
  ASSUME SlotInv, WriteFails
  PROVE  SlotInv'
  <1> USE SerialAssumption DEF SlotInv, WriteFails, Return, matcher, thread, caller, bridge
  <1>1. TypeInv'
    BY DEF TypeInv
  <1>2. Waiting'
    BY DEF TypeInv, Waiting, InTransaction
  <1>3. Owing'
    BY DEF TypeInv, Owing, Unique, InTransaction
  <1>4. Expected'
    BY DEF Waiting, InTransaction, Expected, Stale
  <1>5. OwnOnly'
    BY DEF Waiting, OwnOnly, InTransaction, OwnReplyOwed
  <1> QED
    BY <1>1, <1>2, <1>3, <1>4, <1>5

LEMMA CollectKeeps ==
  ASSUME SlotInv, Collect
  PROVE  SlotInv'
  <1> USE SerialAssumption DEF SlotInv, Collect, matcher, thread, caller, bridge
  <1>1. TypeInv'
    BY DEF TypeInv
  <1>2. Waiting'
    BY DEF TypeInv, Waiting, InTransaction
  <1>3. Owing'
    BY DEF TypeInv, Owing, Unique, InTransaction
  <1>4. Expected'
    BY DEF Waiting, InTransaction, Expected, Stale, Owing, OwnOnly, OwnReplyOwed, ToSet
  <1>5. OwnOnly'
    BY DEF Waiting, OwnOnly, InTransaction, OwnReplyOwed
  <1> QED
    BY <1>1, <1>2, <1>3, <1>4, <1>5

LEMMA AwaitDownKeeps ==
  ASSUME SlotInv, AwaitDown
  PROVE  SlotInv'
  <1> USE SerialAssumption DEF SlotInv, AwaitDown, Return, matcher, thread, caller, bridge
  <1>1. TypeInv'
    BY DEF TypeInv
  <1>2. Waiting'
    BY DEF TypeInv, Waiting, InTransaction
  <1>3. Owing'
    BY DEF TypeInv, Owing, Unique, InTransaction
  <1>4. Expected'
    BY DEF Waiting, InTransaction, Expected, Stale
  <1>5. OwnOnly'
    BY DEF Waiting, OwnOnly, InTransaction, OwnReplyOwed
  <1> QED
    BY <1>1, <1>2, <1>3, <1>4, <1>5

LEMMA CloseKeeps ==
  ASSUME SlotInv, Close
  PROVE  SlotInv'
  <1> USE SerialAssumption DEF SlotInv, Close, matcher, thread, caller, bridge
  <1>1. TypeInv'
    BY DEF TypeInv
  <1>2. Waiting'
    BY DEF TypeInv, Waiting, InTransaction
  <1>3. Owing'
    BY DEF TypeInv, Owing, Unique, InTransaction
  <1>4. Expected'
    BY DEF Waiting, InTransaction, Expected, Stale
  <1>5. OwnOnly'
    BY DEF Waiting, OwnOnly, InTransaction, OwnReplyOwed
  <1> QED
    BY <1>1, <1>2, <1>3, <1>4, <1>5

LEMMA ClosedKeeps ==
  ASSUME SlotInv, LinkClosed
  PROVE  SlotInv'
  <1> USE SerialAssumption DEF SlotInv, LinkClosed, matcher, thread, caller, bridge
  <1>1. TypeInv'
    BY DEF TypeInv
  <1>2. Waiting'
    BY DEF TypeInv, Waiting, InTransaction
  <1>3. Owing'
    BY DEF TypeInv, Owing, Unique, InTransaction
  <1>4. Expected'
    BY DEF Waiting, InTransaction, Expected, Stale
  <1>5. OwnOnly'
    BY DEF Waiting, OwnOnly, InTransaction, OwnReplyOwed
  <1> QED
    BY <1>1, <1>2, <1>3, <1>4, <1>5

LEMMA ReadFailsKeeps ==
  ASSUME SlotInv, ReadFails
  PROVE  SlotInv'
  <1> USE SerialAssumption DEF SlotInv, ReadFails, matcher, thread, caller, bridge
  <1>1. TypeInv'
    BY DEF TypeInv
  <1>2. Waiting'
    BY DEF TypeInv, Waiting, InTransaction
  <1>3. Owing'
    BY DEF TypeInv, Owing, Unique, InTransaction
  <1>4. Expected'
    BY DEF Waiting, InTransaction, Expected, Stale
  <1>5. OwnOnly'
    BY DEF Waiting, OwnOnly, InTransaction, OwnReplyOwed
  <1> QED
    BY <1>1, <1>2, <1>3, <1>4, <1>5

LEMMA LeaveLoopKeeps ==
  ASSUME SlotInv, LeaveLoop
  PROVE  SlotInv'
  <1> USE SerialAssumption DEF SlotInv, LeaveLoop, matcher, thread, caller, bridge
  <1>1. TypeInv'
    BY DEF TypeInv
  <1>2. Waiting'
    BY DEF TypeInv, Waiting, InTransaction
  <1>3. Owing'
    BY DEF TypeInv, Owing, Unique, InTransaction
  <1>4. Expected'
    BY DEF Waiting, InTransaction, Expected, Stale
  <1>5. OwnOnly'
    BY DEF Waiting, OwnOnly, InTransaction, OwnReplyOwed
  <1> QED
    BY <1>1, <1>2, <1>3, <1>4, <1>5

LEMMA FinishKeeps ==
  ASSUME SlotInv, Finish
  PROVE  SlotInv'
  <1> USE SerialAssumption DEF SlotInv, Finish, matcher, thread, caller, bridge
  <1>1. TypeInv'
    BY DEF TypeInv
  <1>2. Waiting'
    BY DEF TypeInv, Waiting, InTransaction
  <1>3. Owing'
    BY DEF TypeInv, Owing, Unique, InTransaction
  <1>4. Expected'
    BY DEF Waiting, InTransaction, Expected, Stale
  <1>5. OwnOnly'
    BY DEF Waiting, OwnOnly, InTransaction, OwnReplyOwed
  <1> QED
    BY <1>1, <1>2, <1>3, <1>4, <1>5

\* The request's frame goes last.
LEMMA WriteKeeps ==
  ASSUME SlotInv, Write
  PROVE  SlotInv'
  <1> USE SerialAssumption DEF SlotInv, Write, matcher, thread
  <1> DEFINE f == [cmd |-> command, id |-> issued]
  <1>1. f \in BridgeFrames /\ f.cmd = command /\ f.id = issued
    BY DEF TypeInv, Waiting, BridgeFrames
  <1> HIDE DEF f
  <1>2. owed' = Append(owed, f)
    BY DEF f
  <1>3. /\ owed' \in Seq(BridgeFrames)
        /\ Len(owed) + 1 \in DOMAIN owed' /\ owed'[Len(owed) + 1] = f
        /\ \A i \in DOMAIN owed : /\ i \in DOMAIN owed' /\ owed'[i] = owed[i]
                                  /\ i < Len(owed) + 1
        /\ \A i \in DOMAIN owed' : i \in DOMAIN owed \/ i = Len(owed) + 1
    BY <1>1, <1>2, Sent DEF TypeInv
  <1>4. TypeInv'
    BY <1>3 DEF TypeInv
  <1>5. Waiting'
    BY DEF TypeInv, Waiting, InTransaction
  <1>6. Owing'
    BY <1>1, <1>3, FramesOf DEF TypeInv, Owing, Unique, InTransaction
  <1>7. Expected'
    BY <1>1, <1>3 DEF TypeInv, Expected, Stale
  <1>8. OwnOnly'
    BY DEF TypeInv, OwnOnly, InTransaction
  <1> QED
    BY <1>4, <1>5, <1>6, <1>7, <1>8

\* A push is never stale.
LEMMA PushKeeps ==
  ASSUME SlotInv, PushUnasked
  PROVE  SlotInv'
  <1> USE SerialAssumption DEF SlotInv, PushUnasked, matcher, thread, caller
  <1> DEFINE f == [cmd |-> GetInfo, id |-> 0]
  <1>1. f \in BridgeFrames /\ f.cmd = GetInfo /\ f.id = 0
    BY DEF BridgeFrames
  <1> HIDE DEF f
  <1>2. owed' = Append(owed, f)
    BY DEF f
  <1>3. /\ owed' \in Seq(BridgeFrames)
        /\ Len(owed) + 1 \in DOMAIN owed' /\ owed'[Len(owed) + 1] = f
        /\ \A i \in DOMAIN owed : /\ i \in DOMAIN owed' /\ owed'[i] = owed[i]
                                  /\ i < Len(owed) + 1
        /\ \A i \in DOMAIN owed' : i \in DOMAIN owed \/ i = Len(owed) + 1
    BY <1>1, <1>2, Sent DEF TypeInv
  <1>4. TypeInv'
    BY <1>3 DEF TypeInv
  <1>5. Waiting'
    BY DEF Waiting, InTransaction
  <1>6. Owing'
    BY <1>1, <1>3, FramesOf DEF TypeInv, Owing, Unique, InTransaction
  <1>7. Expected'
    BY <1>1, <1>3 DEF TypeInv, Expected, Stale
  <1>8. OwnOnly'
    <2> SUFFICES ASSUME InTransaction, ~OwnReplyOwed PROVE ~OwnReplyOwed'
      BY DEF OwnOnly, InTransaction
    <2>1. issued # 0 /\ \A i \in DOMAIN owed : owed[i].id # issued
      BY OwnOwed DEF Owing
    <2>2. \A i \in DOMAIN owed' : owed'[i].id # issued
      BY <1>1, <1>3, <2>1
    <2> QED
      BY <2>1, <2>2, OwnOwed
  <1> QED
    BY <1>4, <1>5, <1>6, <1>7, <1>8

\* The first frame is taken: the one the slot expects, or the waiter's.
LEMMA ReceiveKeeps ==
  ASSUME SlotInv, Receive
  PROVE  SlotInv'
  <1> USE SerialAssumption DEF SlotInv
  <1>1. /\ owed \in Seq(BridgeFrames) /\ owed # <<>> /\ owed' = Tail(owed)
        /\ Route(owed[1]) /\ reader = "reading" /\ ~readerFinished
        /\ UNCHANGED <<down, quiet, thread, caller, bridgeFaults, pushes, overlapped>>
    BY Received DEF Receive, TypeInv, Waiting
  <1>2. /\ owed' \in Seq(BridgeFrames) /\ owed[1] \in BridgeFrames /\ 1 \in DOMAIN owed
        /\ \A i \in DOMAIN owed' : i + 1 \in DOMAIN owed /\ owed'[i] = owed[i + 1]
        /\ \A i \in DOMAIN owed \ {1} : i - 1 \in DOMAIN owed' /\ owed'[i - 1] = owed[i]
    BY <1>1, Received
  <1>3. owed[1].id \in 0 .. MaxTransactions /\ owed[1].cmd \in Commands
    BY <1>1, <1>2, FramesOf
  <1>4. \A i \in DOMAIN owed' : i \in Nat
    BY <1>2
  <1>5. TypeInv'
    BY <1>1, <1>2, <1>3 DEF TypeInv, Route, IsLate, Answers, thread, caller
  <1>6. Waiting'
    <2>1. \/ UNCHANGED <<inflight, reply>>
          \/ inflight = owed[1].cmd /\ inflight' = None /\ reply' = owed[1]
      BY <1>1 DEF Route, IsLate, Answers
    <2>2. UNCHANGED <<down, reader, readerFinished, pc, command>>
      BY <1>1 DEF thread, caller
    <2>3. owed[1] # None /\ owed[1].cmd # None
      BY <1>2, <1>3
    <2>4. CASE UNCHANGED <<inflight, reply>>
      BY <2>2, <2>4 DEF Waiting, InTransaction
    <2>5. CASE inflight = owed[1].cmd /\ inflight' = None /\ reply' = owed[1]
      BY <2>2, <2>3, <2>5 DEF Waiting, InTransaction
    <2> QED
      BY <2>1, <2>4, <2>5
  <1>7. Owing'
    BY <1>1, <1>2, <1>4 DEF TypeInv, Owing, Unique, InTransaction, caller
  <1>8. Expected'
    <2> SUFFICES ASSUME ~overlapped, NEW i \in DOMAIN owed', Stale(owed[i])'
                 PROVE  /\ timedOut' = owed'[i].cmd
                        /\ \A j \in DOMAIN owed' : Stale(owed[j])' => i = j
                        /\ pc' = "await" => \E j \in DOMAIN owed' : i < j /\ owed'[j].id = issued'
      BY <1>1 DEF Expected, thread
    <2>1. UNCHANGED <<pc, issued>>
      BY <1>1 DEF caller
    <2>2. i + 1 \in DOMAIN owed /\ Stale(owed[i + 1]) /\ i \in Nat /\ i > 0
      BY <1>1, <1>2, <1>4, <2>1 DEF Stale
    <2>3. /\ timedOut = owed[i + 1].cmd
          /\ \A j \in DOMAIN owed : Stale(owed[j]) => i + 1 = j
          /\ pc = "await" => \E j \in DOMAIN owed : i + 1 < j /\ owed[j].id = issued
      BY <1>1, <2>2 DEF Expected
    <2>4. ~IsLate(owed[1])
      <3>1. ~Stale(owed[1])
        BY <1>2, <2>2, <2>3
      <3>2. ASSUME IsLate(owed[1]) PROVE FALSE
        <4>1. owed[1].cmd # GetInfo
          BY <2>2, <2>3, <3>2 DEF IsLate, Stale
        <4>2. pc = "await" /\ owed[1].id = issued /\ issued # 0
          BY <1>2, <3>1, <4>1 DEF Stale, Owing
        <4> QED
          BY <1>2, <2>2, <2>3, <4>2 DEF Owing, Unique
      <3> QED
        BY <3>2
    <2>5. timedOut' = timedOut
      BY <1>1, <2>4 DEF Route
    <2>6. \A j \in DOMAIN owed' : Stale(owed[j])' => i = j
      BY <1>2, <1>4, <2>1, <2>3 DEF Stale
    <2>7. ASSUME pc' = "await" PROVE \E j \in DOMAIN owed' : i < j /\ owed'[j].id = issued'
      <3>1. PICK j \in DOMAIN owed : i + 1 < j /\ owed[j].id = issued
        BY <2>1, <2>3, <2>7
      <3>2. j \in Nat /\ j # 1
        BY <2>2, <3>1 DEF TypeInv
      <3>3. j - 1 \in DOMAIN owed' /\ owed'[j - 1] = owed[j] /\ i < j - 1
        BY <1>2, <2>2, <3>1, <3>2
      <3> QED
        BY <2>1, <3>1, <3>3
    <2> QED
      BY <1>2, <2>3, <2>5, <2>6, <2>7
  <1>9. OwnOnly'
    <2> SUFFICES ASSUME ~overlapped, InTransaction, reply' # None, command # GetInfo
                 PROVE  /\ pc = "await" /\ reply'.id = issued
                        /\ ~OwnReplyOwed'
      BY <1>1 DEF OwnOnly, InTransaction, caller
    <2>1. UNCHANGED <<pc, issued, command>>
      BY <1>1 DEF caller
    <2>2. CASE reply # None
      <3>1. pc = "await" /\ reply.id = issued /\ ~OwnReplyOwed
        BY <1>1, <2>2 DEF OwnOnly
      <3>2. inflight = None
        BY <2>2 DEF Waiting
      <3>3. reply' = reply
        BY <1>1, <1>3, <3>2 DEF Route, Answers
      <3>4. \A i \in DOMAIN owed' : owed'[i].id # issued
        BY <1>2, <3>1, OwnOwed
      <3> QED
        BY <2>1, <3>1, <3>3, <3>4, OwnOwed
    <2>3. CASE reply = None
      <3>1. /\ ~IsLate(owed[1]) /\ Answers(owed[1]) /\ reply' = owed[1]
            /\ owed[1].cmd = command
        BY <1>1, <1>3, <2>3 DEF Route, Answers, Waiting
      <3>2. ~Stale(owed[1])
        BY <1>1, <1>2, <3>1 DEF Expected, IsLate
      <3>3. owed[1].id # 0
        BY <1>2, <3>1 DEF Owing
      <3>4. pc = "await" /\ owed[1].id = issued
        BY <3>1, <3>2, <3>3 DEF Stale
      <3>5. \A i \in DOMAIN owed' : owed'[i].id # issued
        BY <1>2, <1>4, <3>3, <3>4 DEF Owing, Unique
      <3> QED
        BY <2>1, <3>1, <3>4, <3>5, OwnOwed
    <2> QED
      BY <2>2, <2>3
  <1> QED
    BY <1>5, <1>6, <1>7, <1>8, <1>9

\* The deadline passes with nothing but the current request unsettled, or
\* after its own frame has gone.
LEMMA TimeOutKeeps ==
  ASSUME SlotInv, TimeOut
  PROVE  SlotInv'
  <1> USE SerialAssumption DEF SlotInv, TimeOut, Return, thread
  <1>1. TypeInv'
    <2>1. bridgeFaults' \in Nat
      BY DEF TypeInv, BridgeFault
    <2>2. timeouts' \in Nat /\ LateSlot \in Commands \cup {None}
      BY DEF TypeInv, LateSlot
    <2>3. overlapped' \in BOOLEAN
      BY ZenonT(20) DEF TypeInv, BridgeFault
    <2> QED
      BY <2>1, <2>2, <2>3 DEF TypeInv
  <1>2. Waiting'
    BY DEF TypeInv, Waiting, InTransaction
  <1>3. Owing'
    BY FramesOf DEF TypeInv, Owing, Unique, InTransaction
  <1>4. OwnOnly'
    BY DEF OwnOnly, InTransaction
  <1>5. Expected'
    <2> SUFFICES ASSUME reader = "reading", ~overlapped', NEW i \in DOMAIN owed,
                        owed[i].id # 0, owed[i].cmd # GetInfo
                 PROVE  /\ timedOut' = owed[i].cmd
                        /\ \A j \in DOMAIN owed :
                              owed[j].id # 0 /\ owed[j].cmd # GetInfo => i = j
      BY DEF Expected, Stale
    <2>1. ~overlapped /\ ~readerFinished
      BY DEF BridgeFault, Waiting
    <2>2. CASE OwnReplyOwed
      <3>1. Settled
        BY <2>1, <2>2 DEF BridgeFault
      <3>2. \A j \in DOMAIN owed : owed[j].id \in {0, issued}
        BY <3>1 DEF Settled, ToSet
      <3>3. timedOut' = command
        BY <3>1 DEF Settled, LateSlot
      <3> QED
        BY <3>2, <3>3 DEF Owing, Unique
    <2>3. CASE ~OwnReplyOwed
      <3>1. \A j \in DOMAIN owed : owed[j].id # issued
        BY <2>3, OwnOwed
      <3>2. Stale(owed[i])
        BY <3>1 DEF Stale
      <3> QED
        BY <2>1, <3>1, <3>2 DEF Expected
    <2> QED
      BY <2>2, <2>3
  <1> QED
    BY <1>1, <1>2, <1>3, <1>4, <1>5

\* A reply is lost with nothing else unsettled, or the run is overlapped.
LEMMA LoseReplyKeeps ==
  ASSUME SlotInv, LoseReply
  PROVE  SlotInv'
  <1> USE SerialAssumption DEF SlotInv, LoseReply, matcher, thread, caller
  <1>1. PICK k \in DOMAIN owed : owed[k].id = issued /\ owed' = RemoveAt(owed, k)
    OBVIOUS
  <1>2. /\ owed' \in Seq(BridgeFrames)
        /\ \A i \in DOMAIN owed' : \E j \in DOMAIN owed \ {k} :
              owed'[i] = owed[j] /\ j = IF i < k THEN i ELSE i + 1
    BY <1>1, Lost DEF TypeInv
  <1>3. \A i \in DOMAIN owed' : i \in Nat
    BY <1>2
  <1>4. TypeInv'
    <2>1. bridgeFaults' \in Nat /\ overlapped' \in BOOLEAN
      BY DEF TypeInv, BridgeFault
    <2> QED
      BY <1>2, <2>1 DEF TypeInv
  <1>5. Waiting'
    BY DEF Waiting, InTransaction
  <1>6. Owing'
    <2>1. Unique(owed)'
      <3> SUFFICES ASSUME NEW i \in DOMAIN owed', NEW j \in DOMAIN owed', i # j
                   PROVE  owed'[i].id # owed'[j].id \/ owed'[i].id = 0
        BY DEF Unique
      <3>1. PICK m \in DOMAIN owed : owed'[i] = owed[m] /\ m = IF i < k THEN i ELSE i + 1
        BY <1>2
      <3>2. PICK n \in DOMAIN owed : owed'[j] = owed[n] /\ n = IF j < k THEN j ELSE j + 1
        BY <1>2
      <3>3. m # n
        <4>1. i \in Nat /\ j \in Nat /\ k \in Nat
          BY <1>3 DEF TypeInv
        <4> QED
          BY <3>1, <3>2, <4>1
      <3> QED
        BY <3>1, <3>2, <3>3 DEF Owing, Unique
    <2> QED
      BY <1>2, <2>1 DEF Owing, InTransaction
  <1>7. Expected'
    <2> SUFFICES ASSUME ~overlapped', NEW i \in DOMAIN owed', Stale(owed[i])'
                 PROVE  FALSE
      BY DEF Expected
    <2>1. \A j \in DOMAIN owed : owed[j].id \in {0, issued}
      BY DEF BridgeFault, Settled, ToSet
    <2>2. PICK j \in DOMAIN owed \ {k} : owed'[i] = owed[j]
      BY <1>2
    <2>3. owed[j].id # 0 /\ owed[j].id = owed[k].id
      BY <1>1, <2>1, <2>2 DEF Stale
    <2> QED
      BY <2>3 DEF Owing, Unique
  <1>8. OwnOnly'
    BY DEF OwnOnly, InTransaction
  <1> QED
    BY <1>4, <1>5, <1>6, <1>7, <1>8

LEMMA SlotStep == SlotInv /\ [LinkNext]_linkVars => SlotInv'
  <1> SUFFICES ASSUME SlotInv, [LinkNext]_linkVars PROVE SlotInv'
    OBVIOUS
  <1>1. CASE UNCHANGED linkVars
    BY <1>1 DEF linkVars, matcher, thread, caller, bridge, SlotInv, TypeInv, Waiting, Owing, Expected,
                OwnOnly, InTransaction, Unique, Stale, OwnReplyOwed
  <1> QED
    BY <1>1, BeginKeeps, SettleKeeps, RegisterKeeps, WriteKeeps, WriteFailsKeeps, CollectKeeps,
       AwaitDownKeeps, TimeOutKeeps, CloseKeeps, ClosedKeeps, ReceiveKeeps, ReadFailsKeeps,
       LeaveLoopKeeps, FinishKeeps, LoseReplyKeeps, PushKeeps
    DEF LinkNext, Caller, Reader, Bridge

-----------------------------------------------------------------------------
(* The budget                                                              *)

Armed == IF timedOut = None THEN 0 ELSE 1

\* Steps that leave the slot, the accounts and what is owed alone, and that
\* leave a wait or stay outside one.
LEMMA LeavingKeeps ==
  ASSUME SlotInv, Budgeted, pc' # "await", UNCHANGED <<timedOut, bridgeFaults, timeouts>>,
         readerFinished' = readerFinished
  PROVE  Budgeted'
  <1>1. timeouts \in Nat /\ bridgeFaults \in Nat
    BY DEF SlotInv, TypeInv
  <1>2. Need' = Armed /\ Armed \in {0, 1}
    BY DEF Need, Armed
  <1>3. Need \in {0, 1, 2} /\ Armed <= Need
    BY DEF Need, Armed
  <1> QED
    BY <1>1, <1>2, <1>3 DEF Budgeted

LEMMA NeedBound ==
  /\ Need \in Nat /\ Need <= 2
  /\ Need' \in Nat /\ Need' <= 2
  BY DEF Need

LEMMA NoMore ==
  ASSUME NEW t \in Nat, NEW f \in Nat, NEW n \in Nat, NEW m \in Nat,
         t + n <= f + f
  PROVE  /\ m <= n => t + m <= f + f
         /\ m <= 2 => t + m <= (f + 1) + (f + 1)
  OBVIOUS

\* So does a step that needs no more than before.
LEMMA CheaperKeeps ==
  ASSUME SlotInv, Budgeted, Need' <= Need, UNCHANGED <<timeouts, bridgeFaults, readerFinished>>
  PROVE  Budgeted'
  <1> SUFFICES ASSUME ~readerFinished' PROVE timeouts' + Need' <= bridgeFaults' + bridgeFaults'
    BY DEF Budgeted
  <1>1. timeouts + Need <= bridgeFaults + bridgeFaults
    BY DEF Budgeted
  <1>2. timeouts \in Nat /\ bridgeFaults \in Nat
    BY DEF SlotInv, TypeInv
  <1> HIDE DEF Budgeted
  <1>3. timeouts' = timeouts /\ bridgeFaults' = bridgeFaults
    OBVIOUS
  <1>4. Need \in Nat /\ Need' \in Nat
    BY NeedBound
  <1>5. timeouts + Need' <= bridgeFaults + bridgeFaults
    BY <1>1, <1>2, <1>4, NoMore
  <1> QED
    BY <1>3, <1>5

\* What a timeout costs was set aside, or comes with its own fault.
LEMMA TimeOutPaid ==
  ASSUME SlotInv, Budgeted, TimeOut
  PROVE  Budgeted'
  <1> SUFFICES ASSUME ~readerFinished PROVE timeouts' + Need' <= bridgeFaults' + bridgeFaults'
    BY DEF Budgeted, TimeOut, thread
  <1>1. timeouts \in Nat /\ bridgeFaults \in Nat /\ timeouts + Need <= bridgeFaults + bridgeFaults
    BY DEF SlotInv, TypeInv, Budgeted
  <1>2. /\ pc = "await" /\ reply = None /\ timeouts' = timeouts + 1 /\ timedOut' = LateSlot
        /\ pc' = "idle"
    BY DEF TimeOut, Return
  <1>3. Need' = IF LateSlot = None THEN 0 ELSE 1
    BY <1>2 DEF Need
  <1>4. CASE OwnReplyOwed
    <2>1. bridgeFaults' = bridgeFaults + 1
      BY <1>4 DEF TimeOut, BridgeFault
    <2>2. Need \in {0, 1, 2}
      BY DEF Need
    <2> QED
      BY <1>1, <1>2, <1>3, <2>1, <2>2
  <1>5. CASE ~OwnReplyOwed
    <2>1. bridgeFaults' = bridgeFaults /\ Need = IF answeredLate THEN 1 ELSE 2
      BY <1>2, <1>5 DEF TimeOut, Need
    <2>2. answeredLate => LateSlot = None
      BY DEF LateSlot
    <2> QED
      BY <1>1, <1>2, <1>3, <2>1, <2>2
  <1> QED
    BY <1>4, <1>5

\* A frame that goes to the slot pays for the one it leaves unanswered.
LEMMA ReceivePaid ==
  ASSUME SlotInv, Budgeted, Receive
  PROVE  Budgeted'
  <1>1. /\ owed \in Seq(BridgeFrames) /\ owed # <<>> /\ owed' = Tail(owed)
        /\ Route(owed[1]) /\ UNCHANGED <<pc, issued, command, timeouts, bridgeFaults, readerFinished>>
    BY Received DEF Receive, SlotInv, TypeInv, thread, caller
  <1>2. /\ owed[1] \in BridgeFrames /\ 1 \in DOMAIN owed /\ timeouts \in Nat /\ bridgeFaults \in Nat
        /\ \A i \in DOMAIN owed' : i + 1 \in DOMAIN owed /\ owed'[i] = owed[i + 1]
        /\ \A i \in DOMAIN owed \ {1} : i - 1 \in DOMAIN owed' /\ owed'[i - 1] = owed[i]
    BY <1>1, Received DEF SlotInv, TypeInv
  <1>3. owed[1].cmd \in Commands /\ owed[1] # None
    BY <1>1, <1>2, FramesOf, SerialAssumption
  <1>4. OwnReplyOwed' => OwnReplyOwed
    BY <1>1, <1>2, OwnOwed
  <1>5. Need' <= Need
    <2>1. CASE IsLate(owed[1])
      <3>1. /\ timedOut # None /\ timedOut' = None /\ UNCHANGED <<inflight, reply>>
            /\ answeredLate' = (answeredLate \/ Answers(owed[1]))
        BY <1>1, <1>3, <2>1, SerialAssumption DEF Route, IsLate
      <3>2. CASE pc = "await" /\ reply = None /\ ~OwnReplyOwed
        <4>1. ~OwnReplyOwed'
          BY <1>4, <3>2
        <4>2. answeredLate => answeredLate'
          BY <3>1
        <4> QED
          BY <1>1, <3>1, <3>2, <4>1, <4>2 DEF Need
      <3>3. CASE ~(pc = "await" /\ reply = None /\ ~OwnReplyOwed)
        <4>1. Need = 1
          BY <3>1, <3>3 DEF Need
        <4>2. CASE pc = "await" /\ reply = None /\ ~OwnReplyOwed'
          <5>1. OwnReplyOwed
            BY <3>3, <4>2
          <5>2. owed[1].id = issued
            <6>1. PICK i \in DOMAIN owed : owed[i].id = issued
              BY <5>1, OwnOwed
            <6>2. i = 1
              BY <1>1, <1>2, <4>2, <6>1, OwnOwed
            <6> QED
              BY <6>1, <6>2
          <5>3. Answers(owed[1])
            <6>1. owed[1].cmd = command
              BY <1>2, <4>2, <5>2 DEF SlotInv, Owing, InTransaction
            <6>2. inflight = command
              BY <4>2 DEF SlotInv, Waiting, InTransaction
            <6> QED
              BY <6>1, <6>2 DEF Answers
          <5>4. answeredLate'
            BY <3>1, <5>3
          <5> QED
            BY <1>1, <3>1, <4>1, <4>2, <5>4 DEF Need
        <4>3. CASE ~(pc = "await" /\ reply = None /\ ~OwnReplyOwed')
          BY <1>1, <3>1, <4>1, <4>3 DEF Need
        <4> QED
          BY <4>2, <4>3
      <3> QED
        BY <3>2, <3>3
    <2>2. CASE ~IsLate(owed[1]) /\ Answers(owed[1])
      <3>1. reply' # None /\ timedOut' = timedOut
        BY <1>1, <1>3, <2>2 DEF Route
      <3> QED
        BY <3>1 DEF Need
    <2>3. CASE ~IsLate(owed[1]) /\ ~Answers(owed[1])
      <3>1. UNCHANGED <<reply, timedOut, answeredLate>>
        BY <1>1, <2>3 DEF Route
      <3>2. pc = "await" /\ reply = None /\ OwnReplyOwed => OwnReplyOwed'
        <4> SUFFICES ASSUME pc = "await", reply = None, OwnReplyOwed PROVE OwnReplyOwed'
          OBVIOUS
        <4>1. PICK i \in DOMAIN owed : owed[i].id = issued
          BY OwnOwed
        <4>2. i # 1
          BY <1>2, <2>3, <4>1 DEF SlotInv, Owing, Waiting, InTransaction, Answers
        <4>3. i - 1 \in DOMAIN owed' /\ owed'[i - 1].id = issued'
          BY <1>1, <1>2, <4>1, <4>2
        <4> QED
          BY <4>3, OwnOwed
      <3> QED
        BY <1>1, <1>4, <3>1, <3>2 DEF Need
    <2> QED
      BY <2>1, <2>2, <2>3
  <1> QED
    BY <1>1, <1>5, CheaperKeeps

LEMMA LoseReplyPaid ==
  ASSUME SlotInv, Budgeted, LoseReply
  PROVE  Budgeted'
  <1>1. timeouts \in Nat /\ bridgeFaults \in Nat
    BY DEF SlotInv, TypeInv
  <1>2. bridgeFaults' = bridgeFaults + 1 /\ UNCHANGED <<timeouts, readerFinished>>
    BY DEF LoseReply, BridgeFault, thread, caller
  <1> SUFFICES ASSUME ~readerFinished' PROVE timeouts' + Need' <= bridgeFaults' + bridgeFaults'
    BY DEF Budgeted
  <1>3. timeouts + Need <= bridgeFaults + bridgeFaults
    BY <1>2 DEF Budgeted
  <1>4. Need \in Nat /\ Need' \in Nat /\ Need' <= 2
    BY NeedBound
  <1>5. timeouts + Need' <= (bridgeFaults + 1) + (bridgeFaults + 1)
    BY <1>1, <1>3, <1>4, NoMore
  <1> QED
    BY <1>2, <1>5

\* A frame more is owed: the request's own, or a push.
LEMMA SendingPaid ==
  ASSUME SlotInv, Budgeted, Write \/ PushUnasked
  PROVE  Budgeted'
  <1>1. UNCHANGED <<timedOut, answeredLate, reply, timeouts, bridgeFaults, readerFinished, issued>>
    BY DEF Write, PushUnasked, matcher, thread, caller
  <1>2. CASE Write
    <2>1. OwnReplyOwed'
      <3> DEFINE f == [cmd |-> command, id |-> issued]
      <3>1. f \in BridgeFrames /\ f.id = issued
        BY <1>2 DEF Write, SlotInv, TypeInv, Waiting, BridgeFrames
      <3> HIDE DEF f
      <3>2. owed' = Append(owed, f)
        BY <1>2 DEF Write, f
      <3>3. Len(owed) + 1 \in DOMAIN owed' /\ owed'[Len(owed) + 1].id = issued'
        BY <1>1, <3>1, <3>2, Sent DEF SlotInv, TypeInv
      <3> QED
        BY <3>3, OwnOwed
    <2>2. Need' = Armed /\ Need = Armed
      BY <1>1, <1>2, <2>1 DEF Need, Armed, Write
    <2> QED
      BY <1>1, <2>2, CheaperKeeps DEF Armed
  <1>3. CASE PushUnasked
    <2>1. pc' = pc
      BY <1>3 DEF PushUnasked, caller
    <2>2. OwnReplyOwed => OwnReplyOwed'
      <3> DEFINE f == [cmd |-> GetInfo, id |-> 0]
      <3>1. f \in BridgeFrames
        BY SerialAssumption DEF BridgeFrames
      <3> HIDE DEF f
      <3>2. owed' = Append(owed, f)
        BY <1>3 DEF PushUnasked, f
      <3>3. \A i \in DOMAIN owed : i \in DOMAIN owed' /\ owed'[i] = owed[i]
        BY <3>1, <3>2, Sent DEF SlotInv, TypeInv
      <3> QED
        BY <1>1, <3>3, OwnOwed
    <2>3. OwnReplyOwed' /\ pc = "await" => OwnReplyOwed
      <3> SUFFICES ASSUME OwnReplyOwed', pc = "await" PROVE OwnReplyOwed
        OBVIOUS
      <3> DEFINE f == [cmd |-> GetInfo, id |-> 0]
      <3>1. f \in BridgeFrames /\ f.id = 0 /\ issued # 0
        BY SerialAssumption DEF BridgeFrames, SlotInv, Owing, InTransaction
      <3> HIDE DEF f
      <3>2. owed' = Append(owed, f)
        BY <1>3 DEF PushUnasked, f
      <3>3. /\ owed'[Len(owed) + 1] = f
            /\ \A i \in DOMAIN owed : owed'[i] = owed[i]
            /\ \A i \in DOMAIN owed' : i \in DOMAIN owed \/ i = Len(owed) + 1
        BY <3>1, <3>2, Sent DEF SlotInv, TypeInv
      <3> QED
        BY <1>1, <3>1, <3>3, OwnOwed
    <2>4. Need' <= Need
      BY <1>1, <2>1, <2>2, <2>3 DEF Need
    <2> QED
      BY <1>1, <2>4, CheaperKeeps
  <1> QED
    BY <1>2, <1>3

LEMMA BudgetStep == SlotInv /\ Budgeted /\ [LinkNext]_linkVars => Budgeted'
  <1> SUFFICES ASSUME SlotInv, Budgeted, [LinkNext]_linkVars PROVE Budgeted'
    OBVIOUS
  <1>1. ASSUME NEW cmd \in Commands, Begin(cmd) PROVE Budgeted'
    BY <1>1, LeavingKeeps DEF Begin, matcher, thread, bridge
  <1>2. CASE Settle \/ Register \/ WriteFails \/ Collect \/ AwaitDown \/ Close \/ LinkClosed
    BY <1>2, LeavingKeeps
    DEF Settle, Register, WriteFails, Collect, AwaitDown, Close, LinkClosed, Return, matcher, thread,
        bridge
  <1>3. CASE ReadFails \/ LeaveLoop \/ Finish \/ UNCHANGED linkVars
    <2>1. UNCHANGED <<pc, reply, timedOut, answeredLate, owed, issued, bridgeFaults, timeouts>>
          /\ (readerFinished' = readerFinished \/ readerFinished' = TRUE)
      BY <1>3 DEF ReadFails, LeaveLoop, Finish, linkVars, matcher, thread, caller, bridge
    <2> QED
      BY <2>1 DEF Budgeted, Need, OwnReplyOwed
  <1> QED
    BY <1>1, <1>2, <1>3, TimeOutPaid, ReceivePaid, LoseReplyPaid, SendingPaid
    DEF LinkNext, Caller, Reader, Bridge

-----------------------------------------------------------------------------
(* The theorems                                                            *)

LEMMA SerialInvariant == LinkSpec => [](SlotInv /\ Budgeted)
  <1>1. LinkInit => Budgeted
    BY DEF LinkInit, Budgeted, Need
  <1> QED
    BY <1>1, SlotInit, SlotStep, BudgetStep, PTL DEF LinkSpec

\* A reply handed to a request is its own, as long as the bridge settles one
\* fault before it commits the next (serial/reader.rs, route).
THEOREM AcknowledgementsAreOwn == LinkSpec => []NoStaleAck
  <1>1. SlotInv => NoStaleAck
    BY DEF SlotInv, OwnOnly, InTransaction, NoStaleAck
  <1> QED
    BY <1>1, SerialInvariant, PTL

\* While the reader lives, a lost or late reply costs one timeout beyond its
\* own at most, however the faults overlap (serial/reader.rs,
\* answered_inflight_late).
THEOREM LossesCostOneMore == LinkSpec => []LossCostsOneMore
  <1>1. SlotInv /\ Budgeted => LossCostsOneMore
    <2>1. Need \in {0, 1, 2}
      BY DEF Need
    <2>2. bridgeFaults \in Nat => bridgeFaults + bridgeFaults = 2 * bridgeFaults
      OBVIOUS
    <2> QED
      BY <2>1, <2>2 DEF SlotInv, TypeInv, Budgeted, LossCostsOneMore
  <1> QED
    BY <1>1, SerialInvariant, PTL

-----------------------------------------------------------------------------
(* Naturals                                                                *)

\* A set of naturals that is not empty has a least element.
LEMMA Least ==
    ASSUME NEW T \in SUBSET Nat, T # {}
    PROVE \E n \in T : \A m \in T : n <= m
  <1> DEFINE R == OpToRel(<, Nat)
  <1>1. IsWellFoundedOn(R, Nat)
    BY NatLessThanWellFounded
  <1>2. \A m, n \in Nat : <<m, n>> \in R <=> m < n
    BY DEF OpToRel
  <1>3. T \subseteq Nat
    OBVIOUS
  <1> HIDE DEF R
  <1>4. PICK n \in T : \A m \in T : ~(<<m, n>> \in R)
    BY <1>1, <1>3, WFMin, Zenon
  <1>5. \A m \in T : ~(m < n)
    BY <1>2, <1>3, <1>4
  <1> QED
    BY <1>3, <1>5

\* Induction, with the property given as the set of naturals that have it.
LEMMA NatInduct ==
    ASSUME NEW P, 0 \in P, \A n \in Nat : n \in P => n + 1 \in P
    PROVE Nat \subseteq P
  <1> SUFFICES ASSUME Nat \ P # {} PROVE FALSE
    OBVIOUS
  <1>1. PICK n \in Nat \ P : \A m \in Nat \ P : n <= m
    BY Least
  <1>2. n # 0 /\ n - 1 \in Nat
    BY <1>1
  <1>3. n - 1 \in P
    BY <1>1, <1>2
  <1>4. (n - 1) + 1 = n
    BY <1>1
  <1> QED
    BY <1>1, <1>2, <1>3, <1>4

\* Min of the community module is the least element.
LEMMA LeastIsMin ==
    ASSUME NEW T \in SUBSET Nat, T # {}
    PROVE Min(T) \in T /\ \A m \in T : Min(T) <= m
  BY Least DEF Min

\* Min and Max of two integers.
LEMMA LesserAndGreater ==
    ASSUME NEW a \in Int, NEW b \in Int
    PROVE /\ Min({a, b}) = IF a <= b THEN a ELSE b
          /\ Max({a, b}) = IF a >= b THEN a ELSE b
  <1>1. \E x \in {a, b} : \A y \in {a, b} : x <= y
    OBVIOUS
  <1>2. \E x \in {a, b} : \A y \in {a, b} : x >= y
    OBVIOUS
  <1>3. Min({a, b}) \in {a, b} /\ \A y \in {a, b} : Min({a, b}) <= y
    BY <1>1 DEF Min
  <1>4. Max({a, b}) \in {a, b} /\ \A y \in {a, b} : Max({a, b}) >= y
    BY <1>2 DEF Max
  <1> QED
    BY <1>3, <1>4

-----------------------------------------------------------------------------
(* The stream                                                              *)

\* The streams the bridge may send.
Streams == [1..StreamLength -> ByteValues]

\* The bytes a candidate claims are at least the overhead and less than a frame more.
LEMMA Bytes ==
    ASSUME stream \in Streams, NEW i \in Nat, NEW end \in Nat, 1 <= i, end <= StreamLength,
           i + 2 <= end
    PROVE Total(i) \in Nat /\ Total(i) >= 4 /\ Total(i) < Overhead + Modulus
  <1>1. i + 2 \in 1..StreamLength
    BY StreamAssumption
  <1>2. stream[i + 2] \in 0..(Modulus - 1)
    BY <1>1, StreamAssumption DEF Streams
  <1> QED
    BY <1>2, StreamAssumption DEF Total, Overhead

-----------------------------------------------------------------------------
(* The reader                                                              *)

\* The reader's step at i, and a function that is the reader from m on.
Reading(f, i, end) ==
    IF i > end \/ (HeaderAt(i, end) /\ ~Complete(i, end)) THEN << >>
    ELSE IF HeaderAt(i, end) /\ Verifies(i) THEN << i >> \o f[i + Total(i)]
    ELSE f[i + 1]

Reads(f, m, end) == f = [i \in m..(end + 1) |-> Reading(f, i, end)]

\* Where the reader goes on from a place.
LEMMA ReadsOn ==
    ASSUME stream \in Streams, NEW end \in 0..StreamLength, NEW i \in 1..end,
           ~(HeaderAt(i, end) /\ ~Complete(i, end)), HeaderAt(i, end)
    PROVE i + Total(i) \in (i + 1)..(end + 1)
  <1>1. i + 2 <= end /\ i + Total(i) - 1 <= end
    BY DEF Complete
  <1>2. end \in Nat /\ i \in Nat /\ 1 <= i /\ end <= StreamLength
    BY StreamAssumption
  <1>3. Total(i) \in Nat /\ Total(i) >= 4
    BY <1>1, <1>2, Bytes
  <1> QED
    BY <1>1, <1>2, <1>3

\* The reader's recursion has a solution: it only looks to the right.
LEMMA ReaderExists ==
    ASSUME stream \in Streams, NEW end \in 0..StreamLength
    PROVE \E f : Reads(f, 1, end)
  <1> DEFINE N == {n \in Nat : n <= end => \E f : Reads(f, end + 1 - n, end)}
  <1>0. end \in Nat
    BY StreamAssumption
  <1>1. 0 \in N
    <2> DEFINE f == [i \in (end + 1)..(end + 1) |-> << >>]
    <2>1. f = [i \in (end + 1)..(end + 1) |-> Reading(f, i, end)]
      <3>1. \A i \in (end + 1)..(end + 1) : i > end
        BY <1>0
      <3> QED
        BY <3>1 DEF Reading
    <2> HIDE DEF f
    <2>2. Reads(f, end + 1 - 0, end)
      BY <1>0, <2>1 DEF Reads
    <2> QED
      BY <2>2
  <1>2. ASSUME NEW n \in Nat, n \in N PROVE n + 1 \in N
    <2> SUFFICES ASSUME n + 1 <= end PROVE \E f : Reads(f, end + 1 - (n + 1), end)
      BY <1>0
    <2> DEFINE m == end - n
    <2>1. /\ m \in 1..end /\ m + 1 = end + 1 - n /\ m = end + 1 - (n + 1)
          /\ m \in Nat
      BY <1>0
    <2>2. PICK f : Reads(f, m + 1, end)
      BY <1>0, <1>2, <2>1
    <2> HIDE DEF m
    <2> DEFINE g == [i \in m..(end + 1) |-> IF i = m THEN Reading(f, m, end) ELSE f[i]]
    <2>3. \A i \in (m + 1)..(end + 1) : f[i] = Reading(f, i, end)
      BY <2>2 DEF Reads
    <2>4. \A i \in m..(end + 1) : g[i] = IF i = m THEN Reading(f, m, end) ELSE f[i]
      OBVIOUS
    <2>5. \A i \in (m + 1)..(end + 1) : g[i] = f[i]
      BY <1>0, <2>1
    <2> HIDE DEF g
    <2>6. \A i \in m..(end + 1) : Reading(g, i, end) = Reading(f, i, end)
      <3> TAKE i \in m..(end + 1)
      <3>1. CASE i > end
        BY <3>1 DEF Reading
      <3>2. CASE HeaderAt(i, end) /\ ~Complete(i, end)
        BY <3>2 DEF Reading
      <3>3. CASE i <= end /\ ~(HeaderAt(i, end) /\ ~Complete(i, end))
        <4>1. i \in 1..end /\ i + 1 \in (m + 1)..(end + 1)
          BY <1>0, <2>1, <3>3
        <4>2. HeaderAt(i, end) => i + Total(i) \in (m + 1)..(end + 1)
          BY <1>0, <2>1, <3>3, <4>1, ReadsOn
        <4>3. g[i + 1] = f[i + 1] /\ (HeaderAt(i, end) => g[i + Total(i)] = f[i + Total(i)])
          BY <2>5, <4>1, <4>2
        <4> QED
          BY <4>3 DEF Reading
      <3> QED
        BY <1>0, <2>1, <3>1, <3>2, <3>3
    <2>7. \A i \in m..(end + 1) : g[i] = Reading(g, i, end)
      <3> TAKE i \in m..(end + 1)
      <3>1. i # m => i \in (m + 1)..(end + 1)
        BY <1>0, <2>1
      <3> QED
        BY <2>3, <2>4, <2>6, <3>1
    <2>8. g = [i \in m..(end + 1) |-> g[i]]
      BY DEF g
    <2>9. Reads(g, m, end)
      BY <2>7, <2>8 DEF Reads
    <2> QED
      BY <2>1, <2>9
  <1> HIDE DEF N
  <1>3. Nat \subseteq N
    BY <1>1, <1>2, NatInduct
  <1>4. end \in N
    BY <1>0, <1>3
  <1> QED
    BY <1>0, <1>4 DEF N

\* So FramesFrom is what its definition says at each place.
LEMMA FramesUnfold ==
    ASSUME stream \in Streams, NEW end \in 0..StreamLength, NEW i \in 1..(end + 1)
    PROVE FramesFrom(i, end) =
            IF i > end \/ (HeaderAt(i, end) /\ ~Complete(i, end)) THEN << >>
            ELSE IF HeaderAt(i, end) /\ Verifies(i)
                 THEN << i >> \o FramesFrom(i + Total(i), end)
            ELSE FramesFrom(i + 1, end)
  <1> DEFINE f == CHOOSE f : Reads(f, 1, end)
  <1>1. Reads(f, 1, end)
    BY ReaderExists
  <1>2. \A j : FramesFrom(j, end) = f[j]
    BY DEF FramesFrom, Reads, Reading
  <1> HIDE DEF f
  <1>3. f[i] = Reading(f, i, end)
    BY <1>1 DEF Reads
  <1> QED
    BY <1>2, <1>3 DEF Reading

\* The reader finds places of the stream.
LEMMA FramesType ==
    ASSUME stream \in Streams, NEW end \in 0..StreamLength
    PROVE \A i \in 1..(end + 1) : FramesFrom(i, end) \in Seq(Nat)
  <1> DEFINE N == {n \in Nat : \A i \in 1..(end + 1) :
                                  end + 1 - i < n => FramesFrom(i, end) \in Seq(Nat)}
  <1>0. end \in Nat /\ << >> \in Seq(Nat)
    BY StreamAssumption
  <1>1. 0 \in N
    BY <1>0
  <1>2. ASSUME NEW n \in Nat, n \in N PROVE n + 1 \in N
    <2> SUFFICES ASSUME NEW i \in 1..(end + 1), end + 1 - i < n + 1
                 PROVE FramesFrom(i, end) \in Seq(Nat)
      BY <1>0
    <2>1. CASE i > end \/ (HeaderAt(i, end) /\ ~Complete(i, end))
      BY <1>0, <2>1, FramesUnfold
    <2>2. CASE ~(i > end \/ (HeaderAt(i, end) /\ ~Complete(i, end)))
      <3>1. i \in 1..end /\ i + 1 \in 1..(end + 1) /\ end + 1 - (i + 1) < n
        BY <1>0, <2>2
      <3>2. FramesFrom(i + 1, end) \in Seq(Nat)
        BY <1>2, <3>1
      <3>3. HeaderAt(i, end) => << i >> \o FramesFrom(i + Total(i), end) \in Seq(Nat)
        <4> SUFFICES ASSUME HeaderAt(i, end)
                     PROVE << i >> \o FramesFrom(i + Total(i), end) \in Seq(Nat)
          OBVIOUS
        <4>1. i + Total(i) \in (i + 1)..(end + 1)
          BY <2>2, <3>1, ReadsOn
        <4>2. i + Total(i) \in 1..(end + 1) /\ end + 1 - (i + Total(i)) < n
          BY <1>0, <3>1, <4>1
        <4>3. FramesFrom(i + Total(i), end) \in Seq(Nat)
          BY <1>2, <4>2
        <4>4. << i >> \in Seq(Nat)
          BY <1>0
        <4> QED
          BY <4>3, <4>4, ConcatProperties
      <3> QED
        BY <2>2, <3>2, <3>3, FramesUnfold
    <2> QED
      BY <2>1, <2>2
  <1> HIDE DEF N
  <1>3. Nat \subseteq N
    BY <1>1, <1>2, NatInduct
  <1>4. end + 2 \in N
    BY <1>0, <1>3
  <1> QED
    BY <1>0, <1>4 DEF N

\* Where no header begins the reader passes.
LEMMA ReaderPasses ==
    ASSUME stream \in Streams, NEW end \in 0..StreamLength,
           NEW i \in 1..(end + 1), NEW j \in i..(end + 1),
           \A k \in i..(j - 1) : ~HeaderAt(k, end)
    PROVE FramesFrom(i, end) = FramesFrom(j, end)
  <1> DEFINE N == {n \in Nat : i + n <= j => FramesFrom(i, end) = FramesFrom(i + n, end)}
  <1>0. end \in Nat /\ i \in Nat /\ j \in Nat /\ i >= 1 /\ j <= end + 1
    BY StreamAssumption
  <1>1. 0 \in N
    BY <1>0
  <1>2. ASSUME NEW n \in Nat, n \in N PROVE n + 1 \in N
    <2> SUFFICES ASSUME i + (n + 1) <= j
                 PROVE FramesFrom(i, end) = FramesFrom(i + (n + 1), end)
      OBVIOUS
    <2> DEFINE k == i + n
    <2>1. k \in i..(j - 1) /\ k \in 1..(end + 1) /\ k <= end /\ k + 1 = i + (n + 1)
      BY <1>0
    <2>2. FramesFrom(i, end) = FramesFrom(k, end)
      BY <1>0, <1>2
    <2> HIDE DEF k
    <2>3. FramesFrom(k, end) = FramesFrom(k + 1, end)
      <3>1. ~HeaderAt(k, end) /\ ~(k > end)
        BY <1>0, <2>1
      <3> QED
        BY <2>1, <3>1, FramesUnfold
    <2> QED
      BY <2>1, <2>2, <2>3
  <1> HIDE DEF N
  <1>3. Nat \subseteq N
    BY <1>1, <1>2, NatInduct
  <1>4. j - i \in N /\ i + (j - i) = j
    BY <1>0, <1>3
  <1> QED
    BY <1>0, <1>4 DEF N

-----------------------------------------------------------------------------
(* A turn of the loop                                                      *)

Parsers == [head: Nat, pushed: 0..StreamLength, suppressed: Nat, start: Nat,
            frames: Seq(Nat), rejected: Seq(Nat), reported: SUBSET Nat, garbage: Nat]

\* Whatever else arrives, the reader of the stretch finds the frames found so
\* far and goes on from the head.
Found(p) ==
    \A end \in p.pushed..StreamLength :
        FramesFrom(p.start + 1, end) = p.frames \o FramesFrom(p.head + 1, end)

Missed(p) == ((p.start + 1)..p.head) \ p.reported

\* What is suppressed was reported, and what was given up was counted.
Charged(p) ==
    /\ (p.head + 1)..(p.head + p.suppressed) \subseteq p.reported
    /\ Cardinality(Missed(p)) <= p.garbage

Parsing(p) ==
    /\ p \in Parsers /\ p.start <= p.head /\ p.head <= p.pushed
    /\ Found(p) /\ Charged(p)

\* Nothing is left to do until more arrives.
Quiet(p) ==
    \/ /\ p.pushed - p.head <= 1
       /\ \A i \in (p.head + 1)..p.pushed : ~HeaderAt(i, p.pushed)
    \/ HeaderAt(p.head + 1, p.pushed) /\ ~Complete(p.head + 1, p.pushed)

\* The updates of a turn, and the fields they change.
Taken(p, h, s, g) == [p EXCEPT !.head = h, !.suppressed = s, !.garbage = g]
Consumed(p, h, s) == [p EXCEPT !.head = h, !.suppressed = s]
Accepted(p, f, r) == [p EXCEPT !.frames = f, !.reported = r]
Rejected(p, f, r) == [p EXCEPT !.rejected = f, !.reported = r]
Suppressed(p, s) == [p EXCEPT !.suppressed = s]

\* The fields after the update of discard.
LEMMA TakenFields ==
    ASSUME NEW p \in Parsers, NEW h \in Nat, NEW s \in Nat, NEW g \in Nat
    PROVE LET q == Taken(p, h, s, g)
          IN /\ q \in Parsers
             /\ q.head = h /\ q.suppressed = s /\ q.garbage = g
             /\ q.pushed = p.pushed /\ q.start = p.start
             /\ q.frames = p.frames /\ q.reported = p.reported
  BY DEF Parsers, Taken

\* The fields after the update of consume.
LEMMA ConsumedFields ==
    ASSUME NEW p \in Parsers, NEW h \in Nat, NEW s \in Nat
    PROVE LET q == Consumed(p, h, s)
          IN /\ q \in Parsers
             /\ q.head = h /\ q.suppressed = s /\ q.garbage = p.garbage
             /\ q.pushed = p.pushed /\ q.start = p.start
             /\ q.frames = p.frames /\ q.reported = p.reported
  BY DEF Parsers, Consumed

\* The fields after a Frame is reported.
LEMMA AcceptedFields ==
    ASSUME NEW p \in Parsers, NEW f \in Seq(Nat), NEW r \in SUBSET Nat
    PROVE LET q == Accepted(p, f, r)
          IN /\ q \in Parsers
             /\ q.head = p.head /\ q.suppressed = p.suppressed /\ q.garbage = p.garbage
             /\ q.pushed = p.pushed /\ q.start = p.start
             /\ q.frames = f /\ q.reported = r
  BY DEF Parsers, Accepted

\* The fields after a BadChecksum is reported.
LEMMA RejectedFields ==
    ASSUME NEW p \in Parsers, NEW f \in Seq(Nat), NEW r \in SUBSET Nat
    PROVE LET q == Rejected(p, f, r)
          IN /\ q \in Parsers
             /\ q.head = p.head /\ q.suppressed = p.suppressed /\ q.garbage = p.garbage
             /\ q.pushed = p.pushed /\ q.start = p.start
             /\ q.frames = p.frames /\ q.reported = r
  BY DEF Parsers, Rejected

\* The fields after the rest of a candidate is suppressed.
LEMMA SuppressedFields ==
    ASSUME NEW p \in Parsers, NEW s \in Nat
    PROVE LET q == Suppressed(p, s)
          IN /\ q \in Parsers
             /\ q.head = p.head /\ q.suppressed = s /\ q.garbage = p.garbage
             /\ q.pushed = p.pushed /\ q.start = p.start
             /\ q.frames = p.frames /\ q.reported = p.reported
  BY DEF Parsers, Suppressed

\* The types of a parser's fields.
LEMMA ParserTypes ==
    ASSUME NEW p \in Parsers
    PROVE /\ p.head \in Nat /\ p.suppressed \in Nat /\ p.garbage \in Nat /\ p.start \in Nat
          /\ p.pushed \in 0..StreamLength /\ p.frames \in Seq(Nat)
          /\ p.rejected \in Seq(Nat) /\ p.reported \in SUBSET Nat
  BY DEF Parsers

\* What discard does to each field.
LEMMA DiscardFields ==
    ASSUME NEW p \in Parsers, NEW n \in Nat
    PROVE LET q == Discard(p, n)
              already == IF n <= p.suppressed THEN n ELSE p.suppressed
          IN /\ q \in Parsers
             /\ q.head = p.head + n /\ q.pushed = p.pushed /\ q.start = p.start
             /\ q.frames = p.frames /\ q.reported = p.reported
             /\ q.suppressed = p.suppressed - already
             /\ q.garbage = p.garbage + n - already
  <1> DEFINE already == Min({n, p.suppressed})
             h == p.head + n
             s == p.suppressed - already
             g == p.garbage + n - already
  <1>1. p.suppressed \in Nat /\ p.garbage \in Nat /\ p.head \in Nat
    BY ParserTypes
  <1>2. already = IF n <= p.suppressed THEN n ELSE p.suppressed
    BY <1>1, LesserAndGreater
  <1>3. Discard(p, n) = Taken(p, h, s, g)
    BY DEF Discard, Taken
  <1> HIDE DEF already
  <1>4. h \in Nat /\ s \in Nat /\ g \in Nat
    BY <1>1, <1>2
  <1> HIDE DEF h, s, g
  <1>5. LET q == Taken(p, h, s, g)
        IN /\ q \in Parsers
           /\ q.head = h /\ q.suppressed = s /\ q.garbage = g
           /\ q.pushed = p.pushed /\ q.start = p.start
           /\ q.frames = p.frames /\ q.reported = p.reported
    BY <1>4, TakenFields
  <1> QED
    BY <1>2, <1>3, <1>5 DEF h, s, g

\* What consume does to each field.
LEMMA ConsumeFields ==
    ASSUME NEW p \in Parsers, NEW n \in Nat
    PROVE LET q == Consume(p, n)
          IN /\ q \in Parsers
             /\ q.head = p.head + n
             /\ q.suppressed = IF p.suppressed >= n THEN p.suppressed - n ELSE 0
             /\ q.garbage = p.garbage
             /\ q.pushed = p.pushed /\ q.start = p.start
             /\ q.frames = p.frames /\ q.reported = p.reported
  <1> DEFINE h == p.head + n
             s == Max({p.suppressed - n, 0})
  <1>1. p.suppressed \in Nat /\ p.head \in Nat
    BY ParserTypes
  <1>2. s = IF p.suppressed >= n THEN p.suppressed - n ELSE 0
    <2>1. p.suppressed - n \in Int /\ 0 \in Int
      BY <1>1
    <2>2. s = IF p.suppressed - n >= 0 THEN p.suppressed - n ELSE 0
      BY <2>1, LesserAndGreater
    <2> QED
      BY <1>1, <2>2
  <1>3. Consume(p, n) = Consumed(p, h, s)
    BY DEF Consume, Consumed
  <1> HIDE DEF s
  <1>4. h \in Nat /\ s \in Nat
    BY <1>1, <1>2
  <1> HIDE DEF h
  <1>5. LET q == Consumed(p, h, s)
        IN /\ q \in Parsers
           /\ q.head = h /\ q.suppressed = s /\ q.garbage = p.garbage
           /\ q.pushed = p.pushed /\ q.start = p.start
           /\ q.frames = p.frames /\ q.reported = p.reported
    BY <1>4, ConsumedFields
  <1> QED
    BY <1>2, <1>3, <1>5 DEF h

\* What a frame taken does to each field.
LEMMA AcceptFields ==
    ASSUME NEW p \in Parsers, NEW i \in Nat, Total(i) \in Nat
    PROVE LET q == Accept(p, i)
          IN /\ q \in Parsers
             /\ q.head = p.head + Total(i) /\ q.pushed = p.pushed /\ q.start = p.start
             /\ q.frames = Append(p.frames, i)
             /\ q.reported = p.reported \cup i..(i + Total(i) - 1)
             /\ q.suppressed = IF p.suppressed >= Total(i) THEN p.suppressed - Total(i) ELSE 0
             /\ q.garbage = p.garbage
  <1> DEFINE n == Total(i)
             f == Append(p.frames, i)
             r == p.reported \cup i..(i + n - 1)
             e == Accepted(p, f, r)
  <1>1. f \in Seq(Nat) /\ r \in SUBSET Nat
    BY ParserTypes, AppendProperties
  <1>2. Accept(p, i) = Consume(e, n)
    BY DEF Accept, Accepted
  <1> HIDE DEF n, f, r
  <1>3. /\ e \in Parsers
        /\ e.head = p.head /\ e.suppressed = p.suppressed /\ e.garbage = p.garbage
        /\ e.pushed = p.pushed /\ e.start = p.start
        /\ e.frames = f /\ e.reported = r
    BY <1>1, AcceptedFields
  <1> HIDE DEF e
  <1>4. n \in Nat
    BY DEF n
  <1>5. LET q == Consume(e, n)
        IN /\ q \in Parsers
           /\ q.head = e.head + n
           /\ q.suppressed = IF e.suppressed >= n THEN e.suppressed - n ELSE 0
           /\ q.garbage = e.garbage
           /\ q.pushed = e.pushed /\ q.start = e.start
           /\ q.frames = e.frames /\ q.reported = e.reported
    BY <1>3, <1>4, ConsumeFields
  <1> QED
    BY <1>2, <1>3, <1>5 DEF n, f, r

\* What a candidate rejected does to each field.
LEMMA RejectFields ==
    ASSUME NEW p \in Parsers, NEW i \in Nat, Total(i) \in Nat \ {0}
    PROVE LET q == Reject(p, i)
          IN /\ q \in Parsers
             /\ q.head = p.head + 1 /\ q.pushed = p.pushed /\ q.start = p.start
             /\ q.frames = p.frames
             /\ q.reported = p.reported \cup i..(i + Total(i) - 1)
             /\ q.suppressed = Total(i) - 1
             /\ q.garbage = p.garbage
  <1> DEFINE n == Total(i)
             f == Append(p.rejected, i)
             r == p.reported \cup i..(i + n - 1)
             e == Rejected(p, f, r)
             c == Consume(e, 1)
  <1>1. f \in Seq(Nat) /\ r \in SUBSET Nat
    BY ParserTypes, AppendProperties
  <1>2. Reject(p, i) = Suppressed(c, n - 1)
    BY DEF Reject, Rejected, Suppressed
  <1>3. n \in Nat \ {0}
    OBVIOUS
  <1> HIDE DEF n, f, r
  <1>4. /\ e \in Parsers
        /\ e.head = p.head /\ e.suppressed = p.suppressed /\ e.garbage = p.garbage
        /\ e.pushed = p.pushed /\ e.start = p.start
        /\ e.frames = p.frames /\ e.reported = r
    BY <1>1, RejectedFields
  <1> HIDE DEF e
  <1>5. /\ c \in Parsers
        /\ c.head = e.head + 1 /\ c.garbage = e.garbage
        /\ c.pushed = e.pushed /\ c.start = e.start
        /\ c.frames = e.frames /\ c.reported = e.reported
    <2>1. e \in Parsers /\ 1 \in Nat
      BY <1>4
    <2> QED
      BY <2>1, ConsumeFields
  <1> HIDE DEF c
  <1>6. n - 1 \in Nat
    BY <1>3
  <1>7. LET q == Suppressed(c, n - 1)
        IN /\ q \in Parsers
           /\ q.head = c.head /\ q.suppressed = n - 1 /\ q.garbage = c.garbage
           /\ q.pushed = c.pushed /\ q.start = c.start
           /\ q.frames = c.frames /\ q.reported = c.reported
    BY <1>5, <1>6, SuppressedFields
  <1> QED
    BY <1>2, <1>4, <1>5, <1>7 DEF n, r

\* The bytes given up and not reported can be counted.
LEMMA MissedIsFinite ==
    ASSUME NEW p \in Parsers
    PROVE IsFiniteSet(Missed(p)) /\ Cardinality(Missed(p)) \in Nat
  <1>1. p.start + 1 \in Int /\ p.head \in Int
    BY ParserTypes
  <1>2. IsFiniteSet((p.start + 1)..p.head)
    BY <1>1, FS_Interval
  <1>3. Missed(p) \subseteq (p.start + 1)..p.head
    BY DEF Missed
  <1> QED
    BY <1>2, <1>3, FS_Subset, FS_CardinalityType

\* Bytes given up add at most themselves to those missed.
LEMMA MissedGrows ==
    ASSUME NEW p \in Parsers, NEW q \in Parsers, NEW a \in Int, NEW b \in Int,
           Missed(q) \subseteq Missed(p) \cup a..b, a <= b + 1
    PROVE Cardinality(Missed(q)) <= Cardinality(Missed(p)) + (b - a + 1)
  <1> DEFINE u == Missed(p) \cup a..b
  <1>1. IsFiniteSet(a..b) /\ Cardinality(a..b) = b - a + 1
    BY FS_Interval
  <1>2. IsFiniteSet(Missed(p)) /\ Cardinality(Missed(p)) \in Nat
    BY MissedIsFinite
  <1>3. /\ IsFiniteSet(u)
        /\ Cardinality(u) = Cardinality(Missed(p)) + Cardinality(a..b)
                              - Cardinality(Missed(p) \cap a..b)
    BY <1>1, <1>2, FS_Union
  <1>4. Cardinality(Missed(p) \cap a..b) \in Nat
    BY <1>2, FS_Intersection, FS_CardinalityType
  <1>5. Cardinality(Missed(q)) <= Cardinality(u)
    BY <1>3, FS_Subset
  <1>6. Cardinality(u) \in Nat /\ Cardinality(Missed(q)) \in Nat
    BY <1>3, FS_CardinalityType, MissedIsFinite
  <1> QED
    BY <1>1, <1>2, <1>3, <1>4, <1>5, <1>6

\* Fewer bytes missed need no more garbage.
LEMMA MissedShrinks ==
    ASSUME NEW p \in Parsers, NEW q \in Parsers, Missed(q) \subseteq Missed(p)
    PROVE Cardinality(Missed(q)) <= Cardinality(Missed(p))
  BY MissedIsFinite, FS_Subset

\* Bytes no header begins at, at whatever end, can be given up.
LEMMA DiscardKeeps ==
    ASSUME stream \in Streams, NEW p, Parsing(p), NEW n \in Nat, p.head + n <= p.pushed,
           \A end \in p.pushed..StreamLength :
              \A i \in (p.head + 1)..(p.head + n) : ~HeaderAt(i, end)
    PROVE Parsing(Discard(p, n))
  <1> DEFINE q == Discard(p, n)
             already == IF n <= p.suppressed THEN n ELSE p.suppressed
  <1>1. /\ q \in Parsers
        /\ q.head = p.head + n /\ q.pushed = p.pushed /\ q.start = p.start
        /\ q.frames = p.frames /\ q.reported = p.reported
        /\ q.suppressed = p.suppressed - already
        /\ q.garbage = p.garbage + n - already
    BY DiscardFields DEF Parsing
  <1> HIDE DEF q
  <1>2. /\ p.head \in Nat /\ p.suppressed \in Nat /\ p.garbage \in Nat /\ p.start \in Nat
        /\ p.pushed \in Nat /\ p.pushed <= StreamLength /\ StreamLength \in Nat
        /\ already \in Nat /\ already <= n /\ already <= p.suppressed
        /\ p \in Parsers /\ p.start <= p.head
    BY ParserTypes, StreamAssumption DEF Parsing
  <1>3. Found(q)
    <2> SUFFICES ASSUME NEW end \in p.pushed..StreamLength
                 PROVE FramesFrom(p.start + 1, end) = p.frames \o FramesFrom(q.head + 1, end)
      BY <1>1 DEF Found
    <2>1. FramesFrom(p.start + 1, end) = p.frames \o FramesFrom(p.head + 1, end)
      BY DEF Parsing, Found
    <2> DEFINE i == p.head + 1
               j == q.head + 1
    <2>2. /\ end \in 0..StreamLength /\ i \in 1..(end + 1) /\ j \in i..(end + 1)
      BY <1>1, <1>2
    <2>3. \A k \in i..(j - 1) : ~HeaderAt(k, end)
      BY <1>1, <1>2
    <2> HIDE DEF i, j
    <2>4. FramesFrom(i, end) = FramesFrom(j, end)
      BY <2>2, <2>3, ReaderPasses
    <2> QED
      BY <2>1, <2>4 DEF i, j
  <1>4. (q.head + 1)..(q.head + q.suppressed) \subseteq q.reported
    <2>1. (p.head + 1)..(p.head + p.suppressed) \subseteq p.reported
      BY DEF Parsing, Charged
    <2>2. (q.head + 1)..(q.head + q.suppressed) \subseteq (p.head + 1)..(p.head + p.suppressed)
      BY <1>1, <1>2
    <2> QED
      BY <1>1, <2>1, <2>2
  <1>5. Cardinality(Missed(q)) <= q.garbage
    <2> DEFINE a == p.head + already + 1
               b == p.head + n
    <2>1. (p.head + 1)..(p.head + p.suppressed) \subseteq p.reported
          /\ Cardinality(Missed(p)) <= p.garbage
      BY DEF Parsing, Charged
    <2>2. a \in Int /\ b \in Int /\ a <= b + 1 /\ b - a + 1 = n - already
      BY <1>2
    <2>3. Missed(q) \subseteq Missed(p) \cup a..b
      <3> SUFFICES ASSUME NEW x \in Missed(q), x \notin Missed(p) PROVE x \in a..b
        OBVIOUS
      <3>1. x \in Int /\ x >= p.start + 1 /\ x <= p.head + n /\ x \notin p.reported
        BY <1>1, <1>2 DEF Missed
      <3>2. x > p.head
        BY <1>2, <3>1 DEF Missed
      <3>3. ~(x <= p.head + p.suppressed)
        BY <1>2, <2>1, <3>1, <3>2
      <3> QED
        BY <1>2, <3>1, <3>2, <3>3
    <2> HIDE DEF a, b
    <2>4. Cardinality(Missed(q)) <= Cardinality(Missed(p)) + (b - a + 1)
      BY <1>1, <1>2, <2>2, <2>3, MissedGrows
    <2>5. Cardinality(Missed(q)) \in Nat /\ Cardinality(Missed(p)) \in Nat
      BY <1>1, <1>2, MissedIsFinite
    <2> QED
      BY <1>1, <1>2, <2>1, <2>2, <2>4, <2>5
  <1> QED
    BY <1>1, <1>2, <1>3, <1>4, <1>5 DEF Parsing, Charged, q

\* What has arrived of a header stays.
LEMMA HeaderStays ==
    ASSUME NEW i \in Int, NEW end \in Int, NEW later \in Int, i + 1 <= end, end <= later
    PROVE HeaderAt(i, later) <=> HeaderAt(i, end)
  BY DEF HeaderAt

\* align stops at the first header, or where nothing is left to do.
LEMMA AlignKeeps ==
    ASSUME stream \in Streams, NEW p, Parsing(p)
    PROVE LET q == Align(p)
          IN /\ Parsing(q) /\ q.pushed = p.pushed /\ q.start = p.start /\ q.head >= p.head
             /\ Headers(p) = {} => Quiet(q)
             /\ Headers(p) # {} => HeaderAt(q.head + 1, q.pushed)
             /\ HeaderAt(p.head + 1, p.pushed) => q.head = p.head
  <1>1. /\ p.head \in Nat /\ p.pushed \in Nat /\ p.pushed <= StreamLength
        /\ StreamLength \in Nat /\ p \in Parsers /\ p.head <= p.pushed
    BY ParserTypes, StreamAssumption DEF Parsing
  <1>2. CASE Headers(p) # {}
    <2> DEFINE k == Min(Headers(p))
               n == k - 1 - p.head
               q == Discard(p, n)
    <2>1. Headers(p) \in SUBSET Nat
      BY <1>1 DEF Headers
    <2>2. k \in Headers(p) /\ \A m \in Headers(p) : k <= m
      BY <1>2, <2>1, LeastIsMin
    <2> HIDE DEF k
    <2>3. k \in (p.head + 1)..p.pushed /\ HeaderAt(k, p.pushed) /\ k + 1 <= p.pushed
      BY <2>2 DEF Headers, HeaderAt
    <2>4. n \in Nat /\ p.head + n = k - 1 /\ p.head + n <= p.pushed
      BY <1>1, <2>3
    <2>5. \A end \in p.pushed..StreamLength :
              \A i \in (p.head + 1)..(p.head + n) : ~HeaderAt(i, end)
      <3> TAKE end \in p.pushed..StreamLength
      <3> TAKE i \in (p.head + 1)..(p.head + n)
      <3>1. i \in (p.head + 1)..p.pushed /\ i < k /\ i + 1 <= p.pushed
        BY <1>1, <2>3, <2>4
      <3>2. ~HeaderAt(i, p.pushed)
        BY <1>1, <2>2, <2>3, <3>1 DEF Headers
      <3> QED
        BY <1>1, <3>1, <3>2, HeaderStays
    <2>6. Align(p) = q
      BY <1>2 DEF Align, k
    <2> HIDE DEF n
    <2>7. q.head = p.head + n /\ q.pushed = p.pushed /\ q.start = p.start
      BY <1>1, <2>4, DiscardFields
    <2>8. Parsing(q)
      BY <2>4, <2>5, DiscardKeeps
    <2> HIDE DEF q
    <2>9. HeaderAt(q.head + 1, q.pushed)
      <3>1. q.head + 1 = k
        BY <1>1, <2>3, <2>4, <2>7
      <3> QED
        BY <2>3, <2>7, <3>1
    <2>10. HeaderAt(p.head + 1, p.pushed) => q.head = p.head
      <3> SUFFICES ASSUME HeaderAt(p.head + 1, p.pushed) PROVE q.head = p.head
        OBVIOUS
      <3>1. p.head + 1 \in Headers(p)
        BY <1>1 DEF Headers, HeaderAt
      <3> QED
        BY <1>1, <2>2, <2>3, <2>4, <2>7, <3>1
    <2> QED
      BY <1>1, <1>2, <2>4, <2>6, <2>7, <2>8, <2>9, <2>10
  <1>3. CASE Headers(p) = {}
    <2> DEFINE keep == IF p.pushed > p.head /\ stream[p.pushed] = Head1 THEN 1 ELSE 0
               n == p.pushed - p.head - keep
               q == Discard(p, n)
    <2>1. Align(p) = q
      BY <1>3 DEF Align
    <2>2. keep \in {0, 1} /\ n \in Nat /\ p.head + n = p.pushed - keep
          /\ p.head + n <= p.pushed
      BY <1>1
    <2>3. \A i \in (p.head + 1)..p.pushed : ~HeaderAt(i, p.pushed)
      BY <1>3 DEF Headers
    <2>4. keep = 0 /\ p.pushed > p.head => stream[p.pushed] # Head1
      OBVIOUS
    <2> HIDE DEF keep
    <2>5. \A end \in p.pushed..StreamLength :
              \A i \in (p.head + 1)..(p.head + n) : ~HeaderAt(i, end)
      <3> TAKE end \in p.pushed..StreamLength
      <3> TAKE i \in (p.head + 1)..(p.head + n)
      <3>1. i \in (p.head + 1)..p.pushed
        BY <1>1, <2>2
      <3>2. CASE i < p.pushed
        BY <1>1, <2>3, <3>1, <3>2, HeaderStays
      <3>3. CASE i = p.pushed
        <4>1. keep = 0 /\ p.pushed > p.head
          BY <1>1, <2>2, <3>3
        <4> QED
          BY <2>4, <3>3, <4>1 DEF HeaderAt
      <3> QED
        BY <1>1, <3>1, <3>2, <3>3
    <2> HIDE DEF n
    <2>6. q.head = p.head + n /\ q.pushed = p.pushed /\ q.start = p.start
      BY <1>1, <2>2, DiscardFields
    <2>7. Parsing(q)
      BY <2>2, <2>5, DiscardKeeps
    <2> HIDE DEF q
    <2>8. Quiet(q)
      <3>1. q.pushed - q.head <= 1
        BY <1>1, <2>2, <2>6
      <3>2. \A i \in (q.head + 1)..q.pushed : i \in (p.head + 1)..p.pushed
        BY <1>1, <2>2, <2>6
      <3> QED
        BY <2>3, <2>6, <3>1, <3>2 DEF Quiet
    <2>9. ~HeaderAt(p.head + 1, p.pushed)
      <3> SUFFICES ASSUME HeaderAt(p.head + 1, p.pushed) PROVE FALSE
        OBVIOUS
      <3>1. p.head + 1 \in Headers(p)
        BY <1>1 DEF Headers, HeaderAt
      <3> QED
        BY <1>3, <3>1
    <2> QED
      BY <1>1, <1>3, <2>1, <2>2, <2>6, <2>7, <2>8, <2>9
  <1> QED
    BY <1>2, <1>3

\* A whole candidate at the head, at every later end too.
LEMMA CandidateStays ==
    ASSUME stream \in Streams, NEW p, Parsing(p), NEW i, i = p.head + 1,
           HeaderAt(i, p.pushed), Complete(i, p.pushed)
    PROVE /\ i \in Nat /\ i + 2 <= p.pushed
          /\ Total(i) \in Nat /\ Total(i) >= 4 /\ p.head + Total(i) <= p.pushed
          /\ \A end \in p.pushed..StreamLength :
                /\ end \in 0..StreamLength /\ i \in 1..end
                /\ HeaderAt(i, end) /\ Complete(i, end)
  <1>1. /\ p.head \in Nat /\ p.pushed \in Nat /\ p.pushed <= StreamLength
        /\ StreamLength \in Nat /\ i \in Nat /\ 1 <= i
    BY ParserTypes, StreamAssumption DEF Parsing
  <1>2. i + 2 <= p.pushed /\ i + Total(i) - 1 <= p.pushed
    BY DEF Complete
  <1>3. Total(i) \in Nat /\ Total(i) >= 4
    BY <1>1, <1>2, Bytes
  <1>4. p.head + Total(i) <= p.pushed
    BY <1>1, <1>2, <1>3
  <1>5. ASSUME NEW end \in p.pushed..StreamLength
        PROVE /\ end \in 0..StreamLength /\ i \in 1..end
              /\ HeaderAt(i, end) /\ Complete(i, end)
    <2>1. end \in 0..StreamLength /\ i \in 1..end /\ end >= p.pushed
      BY <1>1, <1>2
    <2>2. HeaderAt(i, end)
      BY <1>1, <1>2, <2>1, HeaderStays
    <2>3. Complete(i, end)
      BY <1>1, <1>2, <1>3, <2>1 DEF Complete
    <2> QED
      BY <2>1, <2>2, <2>3
  <1> QED
    BY <1>1, <1>2, <1>3, <1>4, <1>5

\* A frame appended, then the rest, is the frames and then that rest with the frame before it.
LEMMA FrameThenRest ==
    ASSUME NEW s \in Seq(Nat), NEW i \in Nat, NEW t \in Seq(Nat)
    PROVE Append(s, i) \o t = s \o (<< i >> \o t)
  <1>1. << i >> \in Seq(Nat)
    OBVIOUS
  <1>2. Append(s, i) = s \o << i >>
    BY AppendIsConcat
  <1>3. (s \o << i >>) \o t = s \o (<< i >> \o t)
    BY <1>1, ConcatAssociative
  <1> QED
    BY <1>2, <1>3

\* A frame taken is the one the reader finds at the head.
LEMMA AcceptKeeps ==
    ASSUME stream \in Streams, NEW p, Parsing(p), NEW i, i = p.head + 1,
           HeaderAt(i, p.pushed), Complete(i, p.pushed), Verifies(i)
    PROVE LET q == Accept(p, i)
          IN Parsing(q) /\ q.pushed = p.pushed /\ q.start = p.start /\ q.head > p.head
  <1> DEFINE q == Accept(p, i)
             n == Total(i)
  <1>1. /\ i \in Nat /\ n \in Nat /\ n >= 4 /\ p.head + n <= p.pushed
    BY CandidateStays
  <1>2. \A end \in p.pushed..StreamLength :
              /\ end \in 0..StreamLength /\ i \in 1..end
              /\ HeaderAt(i, end) /\ Complete(i, end)
    BY CandidateStays
  <1>3. /\ q \in Parsers
        /\ q.head = p.head + n /\ q.pushed = p.pushed /\ q.start = p.start
        /\ q.frames = Append(p.frames, i)
        /\ q.reported = p.reported \cup i..(i + n - 1)
        /\ q.suppressed = IF p.suppressed >= n THEN p.suppressed - n ELSE 0
        /\ q.garbage = p.garbage
    BY <1>1, AcceptFields DEF Parsing
  <1>4. /\ p.head \in Nat /\ p.suppressed \in Nat /\ p.garbage \in Nat /\ p.start \in Nat
        /\ p.pushed \in Nat /\ p.frames \in Seq(Nat)
        /\ p \in Parsers /\ p.start <= p.head
    BY ParserTypes, StreamAssumption DEF Parsing
  <1> HIDE DEF q
  <1>5. Found(q)
    <2> SUFFICES ASSUME NEW end \in p.pushed..StreamLength
                 PROVE FramesFrom(p.start + 1, end) = q.frames \o FramesFrom(q.head + 1, end)
      BY <1>3 DEF Found
    <2>1. FramesFrom(p.start + 1, end) = p.frames \o FramesFrom(i, end)
      BY DEF Parsing, Found
    <2>2. end \in 0..StreamLength /\ i \in 1..end /\ HeaderAt(i, end) /\ Complete(i, end)
      BY <1>2
    <2>3. i \in 1..(end + 1) /\ ~(i > end)
      BY <2>2, StreamAssumption
    <2>4. FramesFrom(i, end) = << i >> \o FramesFrom(i + n, end)
      BY <2>2, <2>3, FramesUnfold
    <2>5. i + n \in 1..(end + 1) /\ q.head + 1 = i + n
      <3>1. i + n \in (i + 1)..(end + 1)
        BY <2>2, ReadsOn
      <3>2. q.head + 1 = i + n
        <4>1. q.head = p.head + n /\ n \in Nat /\ p.head \in Nat
          BY <1>1, <1>3, <1>4
        <4> QED
          BY <4>1
      <3>3. end \in Nat
        BY <2>2, StreamAssumption
      <3> QED
        BY <1>1, <3>1, <3>2, <3>3
    <2> DEFINE rest == FramesFrom(i + n, end)
    <2>6. rest \in Seq(Nat)
      BY <2>2, <2>5, FramesType
    <2> HIDE DEF rest, n
    <2>7. Append(p.frames, i) \o rest = p.frames \o (<< i >> \o rest)
      BY <1>1, <1>4, <2>6, FrameThenRest
    <2> QED
      BY <1>3, <2>1, <2>4, <2>5, <2>7 DEF rest
  <1>6. (q.head + 1)..(q.head + q.suppressed) \subseteq q.reported
    <2>1. (p.head + 1)..(p.head + p.suppressed) \subseteq p.reported
      BY DEF Parsing, Charged
    <2>2. (q.head + 1)..(q.head + q.suppressed) \subseteq (p.head + 1)..(p.head + p.suppressed)
      <3> HIDE DEF n
      <3>1. /\ n \in Nat /\ p.head \in Nat /\ p.suppressed \in Nat
            /\ q.head = p.head + n
            /\ q.suppressed = IF p.suppressed >= n THEN p.suppressed - n ELSE 0
        BY <1>1, <1>3, <1>4
      <3>2. CASE p.suppressed >= n
        <4>1. q.head + q.suppressed = p.head + p.suppressed
          BY <3>1, <3>2
        <4> QED
          BY <3>1, <3>2, <4>1
      <3>3. CASE ~(p.suppressed >= n)
        <4>1. q.suppressed = 0
          BY <3>1, <3>3
        <4> QED
          BY <3>1, <4>1
      <3> QED
        BY <3>2, <3>3
    <2> QED
      BY <1>3, <2>1, <2>2
  <1>7. Cardinality(Missed(q)) <= q.garbage
    <2>1. Missed(q) \subseteq Missed(p)
      <3> SUFFICES ASSUME NEW x \in Missed(q) PROVE x \in Missed(p)
        OBVIOUS
      <3> HIDE DEF n
      <3>1. /\ x \in Int /\ x >= p.start + 1 /\ x <= p.head + n /\ x \notin p.reported
            /\ x \notin i..(i + n - 1)
        <4>1. q.start = p.start /\ q.reported = p.reported \cup i..(i + n - 1)
              /\ q.head = p.head + n
          BY <1>3
        <4>2. /\ x \in (p.start + 1)..(p.head + n) /\ x \notin p.reported
              /\ x \notin i..(i + n - 1)
          BY <4>1 DEF Missed
        <4> QED
          BY <1>1, <1>4, <4>2
      <3>2. x <= p.head
        <4>1. ~(x >= i)
          BY <1>1, <1>4, <3>1
        <4> QED
          BY <1>1, <1>4, <3>1, <4>1
      <3> QED
        BY <1>4, <3>1, <3>2 DEF Missed
    <2>2. Cardinality(Missed(q)) <= Cardinality(Missed(p))
      BY <1>3, <1>4, <2>1, MissedShrinks
    <2>3. Cardinality(Missed(q)) \in Nat /\ Cardinality(Missed(p)) \in Nat
      BY <1>3, <1>4, MissedIsFinite
    <2>4. Cardinality(Missed(p)) <= p.garbage /\ q.garbage = p.garbage
      BY <1>3 DEF Parsing, Charged
    <2> QED
      BY <1>4, <2>2, <2>3, <2>4
  <1>8. q.start <= q.head /\ q.head <= q.pushed /\ q.head > p.head
    <2>1. q.start = p.start /\ q.head = p.head + n /\ q.pushed = p.pushed
      BY <1>3
    <2> QED
      BY <1>1, <1>4, <2>1
  <1> QED
    BY <1>3, <1>5, <1>6, <1>7, <1>8 DEF Parsing, Charged, q

\* A candidate rejected at the head is one the reader passes, by one byte as well.
LEMMA RejectKeeps ==
    ASSUME stream \in Streams, NEW p, Parsing(p), NEW i, i = p.head + 1,
           HeaderAt(i, p.pushed), Complete(i, p.pushed), ~Verifies(i)
    PROVE LET q == Reject(p, i)
          IN Parsing(q) /\ q.pushed = p.pushed /\ q.start = p.start /\ q.head > p.head
  <1> DEFINE q == Reject(p, i)
             n == Total(i)
  <1>1. /\ i \in Nat /\ n \in Nat /\ n >= 4 /\ p.head + n <= p.pushed
    BY CandidateStays
  <1>2. \A end \in p.pushed..StreamLength :
              /\ end \in 0..StreamLength /\ i \in 1..end
              /\ HeaderAt(i, end) /\ Complete(i, end)
    BY CandidateStays
  <1>3. /\ q \in Parsers
        /\ q.head = p.head + 1 /\ q.pushed = p.pushed /\ q.start = p.start
        /\ q.frames = p.frames
        /\ q.reported = p.reported \cup i..(i + n - 1)
        /\ q.suppressed = n - 1
        /\ q.garbage = p.garbage
    BY <1>1, RejectFields DEF Parsing
  <1>4. /\ p.head \in Nat /\ p.garbage \in Nat /\ p.start \in Nat
        /\ p.pushed \in Nat /\ p \in Parsers /\ p.start <= p.head
    BY ParserTypes, StreamAssumption DEF Parsing
  <1> HIDE DEF q
  <1>5. Found(q)
    <2> SUFFICES ASSUME NEW end \in p.pushed..StreamLength
                 PROVE FramesFrom(p.start + 1, end) = p.frames \o FramesFrom(q.head + 1, end)
      BY <1>3 DEF Found
    <2>1. FramesFrom(p.start + 1, end) = p.frames \o FramesFrom(i, end)
      BY DEF Parsing, Found
    <2>2. end \in 0..StreamLength /\ i \in 1..end /\ HeaderAt(i, end) /\ Complete(i, end)
      BY <1>2
    <2>3. i \in 1..(end + 1) /\ ~(i > end)
      BY <2>2, StreamAssumption
    <2>4. FramesFrom(i, end) = FramesFrom(i + 1, end)
      BY <2>2, <2>3, FramesUnfold
    <2>5. q.head + 1 = i + 1
      BY <1>3
    <2> QED
      BY <2>1, <2>4, <2>5
  <1>6. (q.head + 1)..(q.head + q.suppressed) \subseteq q.reported
    BY <1>1, <1>3, <1>4
  <1>7. Cardinality(Missed(q)) <= q.garbage
    <2>1. Missed(q) \subseteq Missed(p)
      <3> SUFFICES ASSUME NEW x \in Missed(q) PROVE x \in Missed(p)
        OBVIOUS
      <3>1. /\ x \in Int /\ x >= p.start + 1 /\ x <= p.head + 1 /\ x \notin p.reported
            /\ x \notin i..(i + n - 1)
        <4>1. q.start = p.start /\ q.reported = p.reported \cup i..(i + n - 1)
              /\ q.head = p.head + 1
          BY <1>3
        <4>2. /\ x \in (p.start + 1)..(p.head + 1) /\ x \notin p.reported
              /\ x \notin i..(i + n - 1)
          BY <4>1 DEF Missed
        <4> QED
          BY <1>1, <1>4, <4>2
      <3>2. x <= p.head
        BY <1>1, <1>4, <3>1
      <3> QED
        BY <1>4, <3>1, <3>2 DEF Missed
    <2>2. Cardinality(Missed(q)) <= Cardinality(Missed(p))
      BY <1>3, <1>4, <2>1, MissedShrinks
    <2>3. Cardinality(Missed(q)) \in Nat /\ Cardinality(Missed(p)) \in Nat
      BY <1>3, <1>4, MissedIsFinite
    <2>4. Cardinality(Missed(p)) <= p.garbage /\ q.garbage = p.garbage
      BY <1>3 DEF Parsing, Charged
    <2> QED
      BY <1>4, <2>2, <2>3, <2>4
  <1>8. q.start <= q.head /\ q.head <= q.pushed /\ q.head > p.head
    <2>1. q.start = p.start /\ q.head = p.head + 1 /\ q.pushed = p.pushed
      BY <1>3
    <2> QED
      BY <1>1, <1>4, <2>1
  <1> QED
    BY <1>3, <1>5, <1>6, <1>7, <1>8 DEF Parsing, Charged, q

\* A turn is the last one or takes a byte.
LEMMA TurnKeeps ==
    ASSUME stream \in Streams, NEW p, Parsing(p)
    PROVE LET q == Turn(p)
          IN /\ Parsing(q) /\ q.pushed = p.pushed /\ q.start = p.start
             /\ Quiet(q) \/ (~Quiet(p) /\ q.head > p.head)
  <1> DEFINE a == Align(p)
             i == a.head + 1
             q == Turn(p)
  <1>1. /\ Parsing(a) /\ a.pushed = p.pushed /\ a.start = p.start /\ a.head >= p.head
        /\ Headers(p) = {} => Quiet(a)
        /\ Headers(p) # {} => HeaderAt(i, a.pushed)
        /\ HeaderAt(p.head + 1, p.pushed) => a.head = p.head
    BY AlignKeeps
  <1>2. /\ Headers(p) = {} \/ ~Complete(i, p.pushed) => q = a
        /\ Headers(p) # {} /\ Complete(i, p.pushed) =>
              q = IF Verifies(i) THEN Accept(a, i) ELSE Reject(a, i)
    BY DEF Turn
  <1>3. a.head \in Nat /\ p.head \in Nat
    BY <1>1, ParserTypes DEF Parsing
  <1> HIDE DEF a, q
  <1>4. CASE Headers(p) = {} \/ ~Complete(i, p.pushed)
    <2>1. Quiet(a)
      BY <1>1, <1>4 DEF Quiet
    <2> QED
      BY <1>1, <1>2, <1>4, <2>1 DEF q
  <1>5. CASE Headers(p) # {} /\ Complete(i, p.pushed)
    <2>1. HeaderAt(i, a.pushed) /\ Complete(i, a.pushed)
      BY <1>1, <1>5
    <2>2. ~Quiet(p)
      <3> SUFFICES ASSUME Quiet(p) PROVE FALSE
        OBVIOUS
      <3>1. ~\A k \in (p.head + 1)..p.pushed : ~HeaderAt(k, p.pushed)
        BY <1>5 DEF Headers
      <3>2. HeaderAt(p.head + 1, p.pushed) /\ ~Complete(p.head + 1, p.pushed)
        BY <3>1 DEF Quiet
      <3> QED
        BY <1>1, <1>5, <3>2
    <2>3. Parsing(q) /\ q.pushed = a.pushed /\ q.start = a.start /\ q.head > a.head
      <3>1. CASE Verifies(i)
        BY <1>1, <1>2, <1>5, <2>1, <3>1, AcceptKeeps
      <3>2. CASE ~Verifies(i)
        BY <1>1, <1>2, <1>5, <2>1, <3>2, RejectKeeps
      <3> QED
        BY <3>1, <3>2
    <2>4. q.head \in Nat
      BY <2>3, ParserTypes DEF Parsing
    <2> QED
      BY <1>1, <1>3, <2>2, <2>3, <2>4 DEF q
  <1> QED
    BY <1>4, <1>5

-----------------------------------------------------------------------------
(* The loop                                                                *)

Turns(f, p, m) == f = [n \in 0..m |-> IF n = 0 THEN p ELSE Turn(f[n - 1])]

\* The turns of scan are a function.
LEMMA TurnsExist ==
    ASSUME NEW p, NEW m \in Nat
    PROVE \E f : Turns(f, p, m)
  <1> DEFINE N == {n \in Nat : \E f : Turns(f, p, n)}
  <1>1. 0 \in N
    <2>1. Turns([n \in 0..0 |-> p], p, 0)
      BY DEF Turns
    <2> QED BY <2>1
  <1>2. ASSUME NEW n \in Nat, n \in N PROVE n + 1 \in N
    <2>1. PICK f : Turns(f, p, n)
      BY <1>2
    <2> DEFINE g == [k \in 0..(n + 1) |-> IF k <= n THEN f[k] ELSE Turn(f[n])]
    <2>2. \A k \in 0..n : f[k] = IF k = 0 THEN p ELSE Turn(f[k - 1])
      BY <2>1 DEF Turns
    <2>3. \A k \in 0..(n + 1) : g[k] = IF k = 0 THEN p ELSE Turn(g[k - 1])
      <3> TAKE k \in 0..(n + 1)
      <3>1. CASE k <= n
        BY <2>2, <3>1
      <3>2. CASE k = n + 1
        <4>1. g[k] = Turn(f[n]) /\ g[n] = f[n] /\ k - 1 = n /\ k # 0
          BY <3>2
        <4> QED
          BY <4>1
      <3> QED
        BY <3>1, <3>2
    <2>4. g = [k \in 0..(n + 1) |-> g[k]]
      OBVIOUS
    <2>5. Turns(g, p, n + 1)
      <3> HIDE DEF g
      <3> QED BY <2>3, <2>4 DEF Turns
    <2> QED
      BY <2>5
  <1> HIDE DEF N
  <1>3. Nat \subseteq N
    BY <1>1, <1>2, NatInduct
  <1> QED
    BY <1>3 DEF N

\* As many turns as bytes leave nothing to do.
LEMMA ScanKeeps ==
    ASSUME stream \in Streams, NEW p, Parsing(p)
    PROVE LET q == Scan(p)
          IN Parsing(q) /\ Quiet(q) /\ q.pushed = p.pushed /\ q.start = p.start
  <1> DEFINE m == p.pushed - p.head
             f == CHOOSE f : Turns(f, p, m)
  <1>1. p.head \in Nat /\ p.pushed \in Nat /\ m \in Nat
    BY ParserTypes, StreamAssumption DEF Parsing
  <1>2. Turns(f, p, m)
    <2> HIDE DEF m
    <2> QED BY <1>1, TurnsExist
  <1>3. Scan(p) = f[m]
    BY DEF Scan, Turns
  <1> HIDE DEF f
  <1>4. \A n \in 0..m : f[n] = IF n = 0 THEN p ELSE Turn(f[n - 1])
    BY <1>2 DEF Turns
  <1> DEFINE Good(n) == /\ Parsing(f[n]) /\ f[n].pushed = p.pushed /\ f[n].start = p.start
                        /\ Quiet(f[n]) \/ f[n].head >= p.head + n
             N == {n \in Nat : n <= m => Good(n)}
  <1>5. 0 \in N
    <2>1. f[0] = p
      BY <1>1, <1>4
    <2> QED
      BY <1>1, <2>1
  <1>6. ASSUME NEW n \in Nat, n \in N PROVE n + 1 \in N
    <2> SUFFICES ASSUME n + 1 <= m PROVE Good(n + 1)
      OBVIOUS
    <2> DEFINE r == f[n]
    <2>1. Good(n)
      BY <1>1, <1>6
    <2>2. f[n + 1] = Turn(r)
      BY <1>1, <1>4
    <2>3. Parsing(r) /\ r.pushed = p.pushed /\ r.start = p.start
          /\ (Quiet(r) \/ r.head >= p.head + n)
      BY <2>1
    <2> HIDE DEF r
    <2> DEFINE q == Turn(r)
    <2>4. /\ Parsing(q) /\ q.pushed = r.pushed /\ q.start = r.start
          /\ Quiet(q) \/ (~Quiet(r) /\ q.head > r.head)
      BY <2>3, TurnKeeps
    <2> HIDE DEF q
    <2>5. q.head \in Nat /\ r.head \in Nat
      BY <2>3, <2>4, ParserTypes DEF Parsing
    <2>6. Quiet(q) \/ q.head >= p.head + (n + 1)
      BY <1>1, <2>3, <2>4, <2>5
    <2> QED
      BY <2>2, <2>3, <2>4, <2>6 DEF q
  <1> HIDE DEF N
  <1>7. Nat \subseteq N
    BY <1>5, <1>6, NatInduct
  <1>8. Good(m)
    BY <1>1, <1>7 DEF N
  <1> DEFINE q == f[m]
  <1>9. Parsing(q) /\ q.pushed = p.pushed /\ q.start = p.start
        /\ (Quiet(q) \/ q.head >= p.pushed)
    BY <1>1, <1>8
  <1> HIDE DEF q
  <1>10. Quiet(q)
    <2> SUFFICES ASSUME q.head >= p.pushed PROVE Quiet(q)
      BY <1>9
    <2>1. q.head \in Nat /\ q.head <= q.pushed
      BY <1>9, ParserTypes DEF Parsing
    <2>2. q.head = q.pushed
      BY <1>1, <1>9, <2>1
    <2> QED
      BY <2>1, <2>2 DEF Quiet
  <1> QED
    BY <1>3, <1>9, <1>10 DEF q

-----------------------------------------------------------------------------
(* The parser                                                              *)

\* The inductive invariant: between reads, nothing is left to do.
ParserInv == stream \in Streams /\ Parsing(parser) /\ Quiet(parser)

\* A parser that starts afresh.
LEMMA BoundaryKeeps ==
    ASSUME stream \in Streams, NEW at \in 0..StreamLength
    PROVE Parsing(AfterBoundary(at)) /\ Quiet(AfterBoundary(at))
  <1> DEFINE p == AfterBoundary(at)
  <1>1. at \in Nat /\ << >> \in Seq(Nat) /\ {} \in SUBSET Nat /\ 0 \in Nat
    BY StreamAssumption
  <1>2. /\ p.head = at /\ p.pushed = at /\ p.suppressed = 0 /\ p.start = at
        /\ p.frames = << >> /\ p.reported = {} /\ p.garbage = 0
    BY DEF AfterBoundary
  <1>3. p \in Parsers
    BY <1>1 DEF AfterBoundary, Parsers
  <1> HIDE DEF p
  <1>4. Found(p)
    <2> SUFFICES ASSUME NEW end \in at..StreamLength
                 PROVE FramesFrom(at + 1, end) = << >> \o FramesFrom(at + 1, end)
      BY <1>2 DEF Found
    <2>1. end \in 0..StreamLength /\ at + 1 \in 1..(end + 1)
      BY <1>1, StreamAssumption
    <2>2. FramesFrom(at + 1, end) \in Seq(Nat)
      BY <2>1, FramesType
    <2> QED
      BY <2>2, ConcatEmptySeq
  <1>5. Charged(p)
    <2>1. Missed(p) = {}
      BY <1>1, <1>2 DEF Missed
    <2>2. Cardinality({}) = 0
      BY FS_EmptySet
    <2> QED
      BY <1>1, <1>2, <2>1, <2>2 DEF Charged
  <1>6. Quiet(p)
    BY <1>1, <1>2 DEF Quiet
  <1> QED
    BY <1>1, <1>2, <1>3, <1>4, <1>5, <1>6 DEF Parsing, p

\* A read only moves the end.
LEMMA ReadKeeps ==
    ASSUME stream \in Streams, NEW p, Parsing(p), NEW upTo \in (p.pushed + 1)..StreamLength
    PROVE Parsing([p EXCEPT !.pushed = upTo])
  <1> DEFINE q == [p EXCEPT !.pushed = upTo]
  <1>1. /\ p \in Parsers /\ p.pushed \in Nat /\ p.head \in Nat /\ p.head <= p.pushed
        /\ upTo \in 0..StreamLength /\ upTo > p.pushed
        /\ upTo \in Nat /\ StreamLength \in Nat /\ p.start <= p.head
    BY ParserTypes, StreamAssumption DEF Parsing
  <1>2. /\ q \in Parsers /\ q.pushed = upTo /\ q.head = p.head /\ q.start = p.start
        /\ q.suppressed = p.suppressed /\ q.frames = p.frames
        /\ q.reported = p.reported /\ q.garbage = p.garbage
    BY <1>1 DEF Parsers
  <1> HIDE DEF q
  <1>3. Found(q)
    <2> SUFFICES ASSUME NEW end \in upTo..StreamLength
                 PROVE FramesFrom(p.start + 1, end) = p.frames \o FramesFrom(p.head + 1, end)
      BY <1>2 DEF Found
    <2>1. end \in p.pushed..StreamLength
      BY <1>1
    <2> QED
      BY <2>1 DEF Parsing, Found
  <1>4. Missed(q) = Missed(p)
    BY <1>2 DEF Missed
  <1>5. Charged(q)
    BY <1>2, <1>4 DEF Parsing, Charged
  <1>6. q.start <= q.head /\ q.head <= q.pushed
    BY <1>1, <1>2
  <1> QED
    BY <1>2, <1>3, <1>5, <1>6 DEF Parsing, q

\* What the reader computes of a stream given as s.
SumIn(s, from, to) == FoldFunctionOnSet(+, 0, s, from..to) % Modulus

FramesIn(s, from, end) ==
    LET found[i \in 1..(end + 1)] ==
            IF i > end \/ ((i + 1 <= end /\ s[i] = Head1 /\ s[i + 1] = Head2)
                            /\ ~(i + 2 <= end /\ i + (Overhead + s[i + 2]) - 1 <= end))
            THEN << >>
            ELSE IF /\ (i + 1 <= end /\ s[i] = Head1 /\ s[i + 1] = Head2)
                    /\ SumIn(s, i, i + (Overhead + s[i + 2]) - 2)
                          = s[i + (Overhead + s[i + 2]) - 1]
            THEN << i >> \o found[i + (Overhead + s[i + 2])]
            ELSE found[i + 1]
    IN found[from]

\* The reader looks at nothing but the stream.
LEMMA FramesOfStream ==
    /\ \A i, end : FramesFrom(i, end) = FramesIn(stream, i, end)
    /\ \A i, end : FramesFrom(i, end)' = FramesIn(stream', i, end)
  <1>1. \A i, end : FramesFrom(i, end) = FramesIn(stream, i, end)
    BY DEF FramesFrom, FramesIn, SumIn, HeaderAt, Complete, Total, Verifies,
           Checksum, FoldFunctionOnSet, MapThenFoldSet
  <1>2. \A i, end : FramesFrom(i, end)' = FramesIn(stream', i, end)
    BY DEF FramesFrom, FramesIn, SumIn, HeaderAt, Complete, Total, Verifies,
           Checksum, FoldFunctionOnSet, MapThenFoldSet
  <1> QED
    BY <1>1, <1>2

\* While the stream is the same, so is what is said of a parser.
LEMMA StreamStays ==
    ASSUME stream' = stream
    PROVE /\ \A i, end : FramesFrom(i, end)' = FramesFrom(i, end)
          /\ \A p : Parsing(p)' <=> Parsing(p)
          /\ \A p : Quiet(p)' <=> Quiet(p)
  <1>3. \A i, end : FramesFrom(i, end)' = FramesFrom(i, end)
    BY FramesOfStream
  <1>4. \A p : Parsing(p)' <=> Parsing(p)
    BY <1>3 DEF Parsing, Found, Charged, Missed
  <1>5. \A p : Quiet(p)' <=> Quiet(p)
    BY DEF Quiet, HeaderAt, Complete, Total
  <1> QED
    BY <1>3, <1>4, <1>5

\* Every read and every expiry keeps the invariant.
LEMMA ParserStep ==
    ASSUME ParserInv, [ParserNext]_parserVars
    PROVE ParserInv'
  <1> USE DEF ParserInv
  <1>1. CASE PushBytes
    <2>1. PICK upTo \in (parser.pushed + 1)..StreamLength :
              parser' = Scan([parser EXCEPT !.pushed = upTo])
      BY <1>1 DEF PushBytes
    <2>2. stream' = stream
      BY <1>1 DEF PushBytes
    <2> DEFINE p == [parser EXCEPT !.pushed = upTo]
    <2>3. Parsing(p)
      BY ReadKeeps
    <2> HIDE DEF p
    <2>4. Parsing(Scan(p)) /\ Quiet(Scan(p))
      BY <2>3, ScanKeeps
    <2>5. parser' = Scan(p)
      BY <2>1 DEF p
    <2>6. Parsing(parser') /\ Quiet(parser')
      BY <2>4, <2>5
    <2> QED
      BY <2>2, <2>6, StreamStays DEF Streams
  <1>2. CASE ExpirePartial
    <2>1. parser' = AfterBoundary(parser.pushed) /\ stream' = stream
      BY <1>2 DEF ExpirePartial
    <2>2. parser.pushed \in 0..StreamLength
      BY ParserTypes DEF Parsing
    <2>3. Parsing(parser') /\ Quiet(parser')
      BY <2>1, <2>2, BoundaryKeeps
    <2> QED
      BY <2>1, <2>3, StreamStays DEF Streams
  <1>3. CASE UNCHANGED parserVars
    <2>1. stream' = stream /\ parser' = parser
      BY <1>3 DEF parserVars
    <2>2. Parsing(parser') /\ Quiet(parser')
      BY <2>1
    <2> QED
      BY <2>1, <2>2, StreamStays DEF Streams
  <1> QED
    BY <1>1, <1>2, <1>3 DEF ParserNext

\* The empty parser satisfies the invariant.
LEMMA ParserStarts == ParserInit => ParserInv
  <1>1. 0 \in 0..StreamLength
    BY StreamAssumption
  <1> QED
    BY <1>1, BoundaryKeeps DEF ParserInit, ParserInv, Streams

\* A parser with nothing left to do has found every frame there is.
LEMMA ParserSound == ParserInv => FramesRecovered
  <1> SUFFICES ASSUME ParserInv PROVE FramesRecovered
    OBVIOUS
  <1> DEFINE p == parser
  <1>1. stream \in Streams /\ Parsing(p) /\ Quiet(p)
    BY DEF ParserInv
  <1>2. /\ p.head \in Nat /\ p.pushed \in 0..StreamLength /\ p.pushed \in Nat
        /\ p.head <= p.pushed /\ p.frames \in Seq(Nat) /\ StreamLength \in Nat
        /\ p.pushed \in p.pushed..StreamLength
    BY <1>1, ParserTypes, StreamAssumption DEF Parsing
  <1>3. FramesFrom(p.start + 1, p.pushed) = p.frames \o FramesFrom(p.head + 1, p.pushed)
    BY <1>1, <1>2 DEF Parsing, Found
  <1> HIDE DEF p
  <1>4. FramesFrom(p.head + 1, p.pushed) = << >>
    <2> DEFINE i == p.head + 1
               j == p.pushed + 1
    <2>1. i \in 1..(p.pushed + 1) /\ j \in i..(p.pushed + 1) /\ j \in 1..(p.pushed + 1)
          /\ j > p.pushed
      BY <1>2
    <2>2. CASE HeaderAt(i, p.pushed) /\ ~Complete(i, p.pushed)
      BY <1>1, <1>2, <2>1, <2>2, FramesUnfold
    <2>3. CASE \A k \in (p.head + 1)..p.pushed : ~HeaderAt(k, p.pushed)
      <3>1. \A k \in i..(j - 1) : ~HeaderAt(k, p.pushed)
        BY <1>2, <2>3
      <3> HIDE DEF i, j
      <3>2. FramesFrom(i, p.pushed) = FramesFrom(j, p.pushed)
        BY <1>1, <1>2, <2>1, <3>1, ReaderPasses
      <3>3. FramesFrom(j, p.pushed) = << >>
        BY <1>1, <1>2, <2>1, FramesUnfold
      <3> QED
        BY <3>2, <3>3 DEF i
    <2> QED
      BY <1>1, <2>2, <2>3 DEF Quiet
  <1>5. p.pushed - p.head < Overhead + Modulus
    <2>1. Overhead + Modulus \in Nat /\ Overhead + Modulus > 4
      BY StreamAssumption DEF Overhead
    <2>2. CASE p.pushed - p.head <= 1
      BY <1>2, <2>1, <2>2
    <2>3. CASE ~Complete(p.head + 1, p.pushed) /\ p.head + 3 <= p.pushed
      <3>1. Total(p.head + 1) \in Nat /\ Total(p.head + 1) < Overhead + Modulus
        <4> DEFINE i == p.head + 1
        <4>1. i \in Nat /\ 1 <= i /\ i + 2 <= p.pushed /\ p.pushed <= StreamLength
          BY <1>2, <2>3
        <4> HIDE DEF i
        <4>2. Total(i) \in Nat /\ Total(i) < Overhead + Modulus
          BY <1>1, <1>2, <4>1, Bytes
        <4> QED
          BY <4>2 DEF i
      <3>2. (p.head + 1) + Total(p.head + 1) - 1 > p.pushed
        BY <1>2, <2>3, <3>1 DEF Complete
      <3> QED
        BY <1>2, <2>1, <3>1, <3>2
    <2>4. CASE p.head + 3 > p.pushed
      BY <1>2, <2>1, <2>4
    <2> QED
      BY <1>1, <1>2, <2>2, <2>3, <2>4 DEF Quiet
  <1>6. Cardinality(Unreported) <= parser.garbage
    BY <1>1 DEF Parsing, Charged, Missed, Unreported, p
  <1>7. parser.frames = FramesFrom(parser.start + 1, parser.pushed)
    BY <1>2, <1>3, <1>4, ConcatEmptySeq DEF p
  <1> QED
    BY <1>5, <1>6, <1>7 DEF FramesRecovered, p

\* Parser::push, scan, align, discard and expire_partial: however the bridge's
\* bytes are cut into reads, and whatever noise or corruption is among them, the
\* frames reported are those a reader of the whole stretch finds, less than one
\* frame is kept back, and every byte given up was reported or counted.
THEOREM FramesAreRecovered == ParserSpec => []FramesRecovered
  BY ParserStarts, ParserStep, ParserSound, PTL DEF ParserSpec

-----------------------------------------------------------------------------
(* Discovery                                                               *)

\* Evidence between the halves of two owners.
Joined(c, d) == <<VideoDevice[c], SerialDevice[d]>> \in Evidence

\* Evidence joins the halves of a dongle, and nothing else.
LEMMA EvidenceJoins ==
    \A c, d \in Owners : Joined(c, d) <=> c = d /\ d \in Dongles
  <1> SUFFICES ASSUME NEW c \in Owners, NEW d \in Owners
               PROVE Joined(c, d) <=> c = d /\ d \in Dongles
    OBVIOUS
  <1> DEFINE v == VideoDevice[c]
             s == SerialDevice[d]
  <1>1. v \in Range(VideoDevice) /\ s \in Range(SerialDevice)
    BY TopologyAssumption DEF Range
  <1>2. Joined(c, d) <=> SameDevice(v, s) \/ PortPeer(v, s) \/ InternalHub(v, s)
    BY <1>1 DEF Joined, Evidence
  <1>3. InternalHub(v, s) => c = d /\ d \in Dongles
    <2> SUFFICES ASSUME InternalHub(v, s) PROVE c = d /\ d \in Dongles
      OBVIOUS
    <2>1. PICK e \in Dongles : v = VideoDevice[e]
      BY DEF InternalHub, VideoId
    <2>2. PICK f \in Dongles : s = SerialDevice[f]
      BY DEF InternalHub, SerialId
    <2>3. e \in Owners /\ f \in Owners
      BY DEF Owners
    <2>4. SameDevice(v, VideoDevice[e])
      BY <2>1 DEF SameDevice
    <2>5. c = e
      BY <2>3, <2>4, TopologyAssumption
    <2>6. d = f
      BY <2>2, <2>3, TopologyAssumption
    <2>7. Front(VideoDevice[e]) = Front(SerialDevice[f])
      BY <2>1, <2>2 DEF InternalHub
    <2> QED
      BY <2>5, <2>6, <2>7, TopologyAssumption
  <1>4. c = d /\ d \in Dongles => SameDevice(v, s) \/ PortPeer(v, s) \/ InternalHub(v, s)
    <2> SUFFICES ASSUME c = d, d \in Dongles
                 PROVE SameDevice(v, s) \/ PortPeer(v, s) \/ InternalHub(v, s)
      OBVIOUS
    <2>1. VideoId(v) /\ SerialId(s)
      BY DEF VideoId, SerialId
    <2> QED
      BY <2>1, TopologyAssumption DEF InternalHub, InternalHubId
  <1>5. SameDevice(v, s) \/ PortPeer(v, s) => c = d /\ d \in Dongles
    BY TopologyAssumption
  <1> QED
    BY <1>2, <1>3, <1>4, <1>5

\* The nodes of an owner.
Capture(d) == [owner |-> d, function |-> "capture"]
Metadata(d) == [owner |-> d, function |-> "metadata"]
Serial(d) == [owner |-> d, function |-> "serial"]

\* The parts of a node.
LEMMA NodesAre ==
    ASSUME NEW n \in Nodes
    PROVE /\ n.owner \in Owners /\ n.function \in Functions
          /\ n = [owner |-> n.owner, function |-> n.function]
          /\ n # Nothing
  BY TopologyAssumption DEF Nodes

\* A candidate is a video and a serial node of one dongle.
LEMMA CandidatesJoin ==
    ASSUME nodes \subseteq Nodes
    PROVE \A p : p \in Candidates <=>
            /\ p \in Videos \X Serials
            /\ p[1].owner = p[2].owner /\ p[1].owner \in Dongles
  <1> SUFFICES ASSUME NEW v \in Videos, NEW s \in Serials
               PROVE <<v, s>> \in Candidates <=> v.owner = s.owner /\ v.owner \in Dongles
    BY DEF Candidates
  <1>1. v \in Nodes /\ s \in Nodes /\ v.function # "serial" /\ s.function = "serial"
    BY DEF Videos, Serials
  <1>2. v.owner \in Owners /\ s.owner \in Owners
    BY <1>1, NodesAre
  <1>3. UsbOf(v) = VideoDevice[v.owner] /\ UsbOf(s) = SerialDevice[s.owner]
    BY <1>1 DEF UsbOf
  <1>4. <<v, s>> \in Candidates <=> <<UsbOf(v), UsbOf(s)>> \in Evidence
    BY DEF Candidates
  <1> QED
    BY <1>2, <1>3, <1>4, EvidenceJoins DEF Joined

\* A video node is on its owner's device alone.
LEMMA SiblingsShare ==
    ASSUME nodes \subseteq Nodes, NEW u \in Videos, NEW v \in Videos
    PROVE UsbOf(u) = UsbOf(v) <=> u.owner = v.owner
  <1>1. u \in Nodes /\ v \in Nodes /\ u.function # "serial" /\ v.function # "serial"
    BY DEF Videos
  <1>2. u.owner \in Owners /\ v.owner \in Owners
    BY <1>1, NodesAre
  <1>3. UsbOf(u) = VideoDevice[u.owner] /\ UsbOf(v) = VideoDevice[v.owner]
    BY <1>1 DEF UsbOf
  <1>4. UsbOf(u) = UsbOf(v) => SameDevice(VideoDevice[u.owner], VideoDevice[v.owner])
    BY <1>3 DEF SameDevice
  <1> QED
    BY <1>2, <1>3, <1>4, TopologyAssumption

\* The pairs: a dongle's serial node with its capture node, or with a node whose
\* probe gave no answer beside no capture node that gave one.
LEMMA PairsAre ==
    ASSUME nodes \subseteq Nodes, NEW unprobed \in SUBSET Probed
    PROVE \A p : p \in Pairs(unprobed) <=>
            /\ p \in Candidates
            /\ \/ p[1] \notin unprobed /\ p[1].function = "capture"
               \/ /\ p[1] \in unprobed
                  /\ \A w \in Videos \ unprobed :
                        w.owner = p[1].owner => w.function # "capture"
  <1> SUFFICES ASSUME NEW p \in Candidates
               PROVE p[1] \in Eligible(Probed \ unprobed) <=>
                        \/ p[1] \notin unprobed /\ p[1].function = "capture"
                        \/ /\ p[1] \in unprobed
                           /\ \A w \in Videos \ unprobed :
                                 w.owner = p[1].owner => w.function # "capture"
    BY DEF Pairs
  <1> DEFINE v == p[1]
             confirmed == {w \in Probed \ unprobed : w.function = "capture"}
             siblings == {UsbOf(w) : w \in confirmed}
  <1>1. v \in Videos /\ p \in Videos \X Serials
    BY DEF Candidates
  <1>2. v \in Probed
    BY <1>1 DEF Probed
  <1>3. \A w \in Videos : UsbOf(v) = UsbOf(w) => w \in Probed
    BY DEF Probed
  <1>4. Probed \subseteq Videos
    BY DEF Probed
  <1>5. v \in Eligible(Probed \ unprobed) <=>
            v \in confirmed \/ (v \in Videos \ (Probed \ unprobed) /\ UsbOf(v) \notin siblings)
    BY DEF Eligible
  <1>6. UsbOf(v) \in siblings <=>
            \E w \in Videos \ unprobed : w.owner = v.owner /\ w.function = "capture"
    <2>1. \A w \in Videos : UsbOf(v) = UsbOf(w) <=> v.owner = w.owner
      BY <1>1, SiblingsShare
    <2>2. UsbOf(v) \in siblings <=>
              \E w \in Probed \ unprobed : w.function = "capture" /\ UsbOf(v) = UsbOf(w)
      OBVIOUS
    <2> QED
      BY <1>3, <1>4, <2>1, <2>2
  <1> HIDE DEF siblings, v
  <1>7. v \in confirmed <=> v \notin unprobed /\ v.function = "capture"
    BY <1>2
  <1>8. v \in Videos \ (Probed \ unprobed) <=> v \in unprobed
    BY <1>1, <1>2
  <1> HIDE DEF confirmed
  <1> QED
    BY <1>5, <1>6, <1>7, <1>8 DEF v

-----------------------------------------------------------------------------
\* TheOnly finds a set's element where there is just one.
LEMMA OnlyOne ==
    ASSUME NEW S, IsFiniteSet(S), Nothing \notin S
    PROVE /\ TheOnly(S) # Nothing => S = {TheOnly(S)}
          /\ TheOnly(S) = Nothing => \A p : S # {p}
  <1>1. Cardinality(S) = 1 <=> \E p : S = {p}
    BY FS_Singleton
  <1>2. ASSUME NEW p, S = {p} PROVE TheOnly(S) = p
    BY <1>1, <1>2 DEF TheOnly
  <1>3. CASE \E p : S = {p}
    BY <1>2, <1>3
  <1>4. CASE ~\E p : S = {p}
    BY <1>1, <1>4 DEF TheOnly
  <1> QED
    BY <1>3, <1>4

\* There are finitely many nodes.
LEMMA NodesAreFinite == IsFiniteSet(Nodes) /\ IsFiniteSet(Nodes \X Nodes)
  <1> DEFINE P == Owners \X Functions
             f == [n \in Nodes |-> <<n.owner, n.function>>]
  <1>1. IsFiniteSet(Functions)
    <2>1. IsFiniteSet({"capture"} \cup {"metadata"} \cup {"serial"})
      BY FS_Singleton, FS_Union
    <2>2. Functions = {"capture"} \cup {"metadata"} \cup {"serial"}
      BY DEF Functions
    <2> QED
      BY <2>1, <2>2
  <1>2. IsFiniteSet(P)
    BY <1>1, FS_Product, TopologyAssumption
  <1>3. f \in [Nodes -> P]
    BY NodesAre
  <1>4. \A m, n \in Nodes : f[m] = f[n] => m = n
    BY NodesAre
  <1> HIDE DEF P, f
  <1>5. f \in Injection(Nodes, P)
    BY <1>3, <1>4 DEF Injection, IsInjective
  <1>6. IsFiniteSet(Nodes)
    BY <1>2, <1>5, FS_Injection
  <1> QED
    BY <1>6, FS_Product

\* What is selected is half of the only pair that agrees with what was given.
LEMMA SelectedHalf ==
    ASSUME nodes \subseteq Nodes, NEW unprobed \in SUBSET Probed,
           NEW kind \in {"video", "serial"}, NEW given \in nodes \cup {Nothing}
    PROVE LET agreeing == {p \in Pairs(unprobed) : given # Nothing => given \in {p[1], p[2]}}
              node == Selected(kind, given, Pairs(unprobed))
          IN /\ node # Nothing =>
                  \E p \in Videos \X Serials :
                     agreeing = {p} /\ node = p[IF kind = "video" THEN 1 ELSE 2]
             /\ node = Nothing => \A p : agreeing # {p}
  <1> DEFINE agreeing == {p \in Pairs(unprobed) : given # Nothing => given \in {p[1], p[2]}}
             node == Selected(kind, given, Pairs(unprobed))
             pair == TheOnly(agreeing)
  <1>1. agreeing \subseteq Videos \X Serials
    BY DEF Pairs, Candidates
  <1>2. Videos \subseteq Nodes /\ Serials \subseteq Nodes
    BY DEF Videos, Serials
  <1>3. agreeing \subseteq Nodes \X Nodes
    BY <1>1, <1>2
  <1>4. IsFiniteSet(agreeing) /\ Nothing \notin agreeing
    BY <1>3, NodesAreFinite, FS_Subset, TopologyAssumption
  <1>5. node = IF pair = Nothing THEN Nothing ELSE pair[IF kind = "video" THEN 1 ELSE 2]
    BY DEF Selected
  <1> HIDE DEF agreeing, node
  <1>6. /\ pair # Nothing => agreeing = {pair}
        /\ pair = Nothing => \A p : agreeing # {p}
    BY <1>4, OnlyOne
  <1> HIDE DEF pair
  <1>7. CASE pair = Nothing
    BY <1>5, <1>6, <1>7 DEF agreeing, node
  <1>8. CASE pair # Nothing
    <2>1. pair \in Videos \X Serials /\ agreeing = {pair}
      BY <1>1, <1>6, <1>8
    <2>2. node = pair[IF kind = "video" THEN 1 ELSE 2]
      BY <1>5, <1>8
    <2>3. pair[1] \in Nodes /\ pair[2] \in Nodes
      BY <1>2, <2>1
    <2>4. node # Nothing
      BY <2>2, <2>3, NodesAre
    <2> QED
      BY <2>1, <2>2, <2>4 DEF agreeing, node
  <1> QED
    BY <1>7, <1>8

\* Every whole dongle has a pair, its capture node's.
LEMMA WholePaired ==
    ASSUME nodes \subseteq Nodes, NEW unprobed \in SUBSET Probed, NEW d \in Whole
    PROVE <<Capture(d), Serial(d)>> \in Pairs(unprobed)
  <1>1. Capture(d) \in nodes /\ Serial(d) \in nodes /\ d \in Dongles
    BY DEF Whole, Capture, Serial
  <1>2. Capture(d) \in Videos /\ Serial(d) \in Serials
    BY <1>1 DEF Capture, Serial, Videos, Serials
  <1> DEFINE p == <<Capture(d), Serial(d)>>
  <1>3. p \in Candidates
    BY <1>1, <1>2, CandidatesJoin DEF Capture, Serial
  <1>4. ASSUME NEW w \in Videos \ unprobed, w.owner = d, w.function = "capture",
               Capture(d) \in unprobed
        PROVE FALSE
    <2>1. w \in Nodes
      BY DEF Videos
    <2>2. w = Capture(d)
      BY <1>4, <2>1, NodesAre DEF Capture
    <2> QED
      BY <1>4, <2>2
  <1>5. p[1] = Capture(d) /\ Capture(d).function = "capture" /\ Capture(d).owner = d
    BY DEF Capture
  <1> QED
    BY <1>3, <1>4, <1>5, PairsAre

\* What a pair is made of.
LEMMA PairHalves ==
    ASSUME nodes \subseteq Nodes, NEW unprobed \in SUBSET Probed, NEW p \in Pairs(unprobed)
    PROVE /\ p[1] \in Videos /\ p[2] \in Serials
          /\ p[1].owner = p[2].owner /\ p[1].owner \in Dongles
          /\ p[2] = Serial(p[1].owner)
          /\ p[1] = Capture(p[1].owner) \/ p[1] \in unprobed
  <1>1. p \in Candidates /\ p \in Videos \X Serials
    BY PairsAre DEF Candidates
  <1>2. p[1].owner = p[2].owner /\ p[1].owner \in Dongles
    BY <1>1, CandidatesJoin
  <1>3. p[1] \in Nodes /\ p[2] \in Nodes /\ p[2].function = "serial"
    BY <1>1 DEF Videos, Serials
  <1>4. p[2] = Serial(p[1].owner)
    BY <1>2, <1>3, NodesAre DEF Serial
  <1>5. p[1] \in unprobed \/ p[1].function = "capture"
    BY PairsAre
  <1>6. p[1].function = "capture" => p[1] = Capture(p[1].owner)
    BY <1>3, NodesAre DEF Capture
  <1> QED
    BY <1>1, <1>2, <1>4, <1>5, <1>6

\* With one whole dongle, and no probe but those of its metadata node failing,
\* there is one pair.
LEMMA OnlyWhole ==
    ASSUME nodes \subseteq Nodes, NEW unprobed \in SUBSET Probed, NEW d, Whole = {d},
           \A n \in unprobed : n.owner = d /\ n.function # "capture"
    PROVE Pairs(unprobed) = {<<Capture(d), Serial(d)>>}
  <1>1. <<Capture(d), Serial(d)>> \in Pairs(unprobed)
    BY WholePaired
  <1>2. ASSUME NEW p \in Pairs(unprobed) PROVE p = <<Capture(d), Serial(d)>>
    <2>1. /\ p[1] \in Videos /\ p[2] \in Serials
          /\ p[1].owner = p[2].owner /\ p[1].owner \in Dongles
          /\ p[2] = Serial(p[1].owner)
          /\ p[1] = Capture(p[1].owner) \/ p[1] \in unprobed
      BY PairHalves
    <2>2. p = <<p[1], p[2]>>
      <3>1. p \in Videos \X Serials
        BY PairsAre DEF Candidates
      <3> QED
        BY <3>1
    <2>3. CASE p[1] \in unprobed
      <3>1. p[1].owner = d
        BY <2>3
      <3>2. Capture(d) \in Videos \ unprobed
        <4>1. Capture(d) \in nodes
          BY DEF Whole, Capture
        <4> QED
          BY <4>1 DEF Videos, Capture
      <3>3. Capture(d).owner = d /\ Capture(d).function = "capture"
        BY DEF Capture
      <3>4. p[1].function # "capture"
        BY <2>3
      <3> QED
        BY <3>1, <3>2, <3>3, <3>4, PairsAre
    <2>4. CASE p[1] = Capture(p[1].owner)
      <3>1. p[1].owner \in Whole
        BY <2>1, <2>4 DEF Whole, Videos, Serials, Capture, Serial
      <3> QED
        BY <2>1, <2>2, <2>4, <3>1
    <2> QED
      BY <2>1, <2>3, <2>4
  <1> QED
    BY <1>1, <1>2

\* The three clauses, of what one attempt finds.
LEMMA SelectionSound ==
    ASSUME nodes \subseteq Nodes, NEW unprobed \in SUBSET Probed,
           NEW kind \in {"video", "serial"},
           NEW given \in {Nothing} \cup (IF kind = "video" THEN Serials ELSE Videos)
    PROVE LET node == Selected(kind, given, Pairs(unprobed))
          IN /\ node # Nothing =>
                  /\ node.owner \in Dongles
                  /\ node.function = "metadata" => node \in unprobed
                  /\ IF given = Nothing THEN Whole \subseteq {node.owner}
                     ELSE node.owner = given.owner
             /\ node = Nothing =>
                  \/ given # Nothing \/ Cardinality(Whole) # 1
                  \/ \E n \in unprobed : n.owner \notin Whole \/ n.function = "capture"
  <1> DEFINE agreeing == {p \in Pairs(unprobed) : given # Nothing => given \in {p[1], p[2]}}
             node == Selected(kind, given, Pairs(unprobed))
  <1>1. given \in nodes \cup {Nothing}
    BY DEF Serials, Videos
  <1>2. /\ node # Nothing =>
              \E p \in Videos \X Serials :
                 agreeing = {p} /\ node = p[IF kind = "video" THEN 1 ELSE 2]
        /\ node = Nothing => \A p : agreeing # {p}
    BY <1>1, SelectedHalf
  <1> HIDE DEF node
  <1>3. ASSUME node # Nothing
        PROVE /\ node.owner \in Dongles
              /\ node.function = "metadata" => node \in unprobed
              /\ IF given = Nothing THEN Whole \subseteq {node.owner}
                 ELSE node.owner = given.owner
    <2>1. PICK p \in Videos \X Serials :
              agreeing = {p} /\ node = p[IF kind = "video" THEN 1 ELSE 2]
      BY <1>2, <1>3
    <2>2. p \in Pairs(unprobed) /\ (given # Nothing => given \in {p[1], p[2]})
      BY <2>1
    <2>3. /\ p[1].owner = p[2].owner /\ p[1].owner \in Dongles
          /\ p[2] = Serial(p[1].owner)
          /\ p[1] = Capture(p[1].owner) \/ p[1] \in unprobed
      BY <2>2, PairHalves
    <2>4. node \in {p[1], p[2]}
      BY <2>1
    <2>5. node.function = "metadata" => node \in unprobed
      <3>1. Serial(p[1].owner).function = "serial" /\ Capture(p[1].owner).function = "capture"
        BY DEF Serial, Capture
      <3> QED
        BY <2>3, <2>4, <3>1
    <2>6. ASSUME given = Nothing, NEW d \in Whole PROVE d = node.owner
      <3>1. <<Capture(d), Serial(d)>> \in agreeing
        BY <2>6, WholePaired
      <3>2. p = <<Capture(d), Serial(d)>>
        BY <2>1, <3>1
      <3>3. Capture(d).owner = d
        BY DEF Capture
      <3> QED
        BY <2>3, <2>4, <3>2, <3>3
    <2> QED
      BY <2>2, <2>3, <2>4, <2>5, <2>6
  <1>4. ASSUME node = Nothing, given = Nothing, Cardinality(Whole) = 1,
               \A n \in unprobed : ~(n.owner \notin Whole \/ n.function = "capture")
        PROVE FALSE
    <2>1. IsFiniteSet(Whole)
      <3>1. Whole \subseteq Owners
        BY DEF Whole, Owners
      <3> QED
        BY <3>1, FS_Subset, TopologyAssumption
    <2>2. PICK d : Whole = {d}
      BY <1>4, <2>1, FS_Singleton
    <2>3. Pairs(unprobed) = {<<Capture(d), Serial(d)>>}
      BY <1>4, <2>2, OnlyWhole
    <2>4. agreeing = Pairs(unprobed)
      BY <1>4
    <2> QED
      BY <1>2, <1>4, <2>3, <2>4
  <1> QED
    BY <1>3, <1>4 DEF node

\* The card of a dongle's capture device is no other's.
LEMMA CardSound ==
    ASSUME cards \subseteq Owners, NEW d \in Dongles
    PROVE CardOf(VideoDevice[d]) \in {Nothing, d}
  <1> DEFINE same == {c \in cards : SameDevice(VideoDevice[d], VideoDevice[c])}
  <1>1. same \subseteq {d}
    BY TopologyAssumption DEF Owners
  <1>2. Cardinality(same) = 1 => same = {d}
    BY <1>1, FS_EmptySet
  <1>3. CardOf(VideoDevice[d]) = TheOnly(same)
    BY DEF CardOf
  <1> HIDE DEF same
  <1>4. TheOnly(same) \in {Nothing, d}
    BY <1>2 DEF TheOnly
  <1> QED
    BY <1>3, <1>4

-----------------------------------------------------------------------------
\* The inductive invariant.
DiscoveryInv == nodes \subseteq Nodes /\ cards \subseteq Owners /\ NeverGuesses

\* A node or card that comes or goes makes the last selection void.
LEMMA ChangeForgets ==
    ASSUME attempt' = Nothing PROVE NeverGuesses'
  BY DEF NeverGuesses, Resolved

\* Every step keeps the invariant.
LEMMA DiscoveryStep ==
    ASSUME DiscoveryInv, [DiscoveryNext]_discoveryVars
    PROVE DiscoveryInv'
  <1> USE DEF DiscoveryInv
  <1>1. CASE Appear
    <2>1. nodes' \subseteq Nodes /\ cards' \subseteq Owners
      BY <1>1, TopologyAssumption DEF Appear
    <2> QED
      BY <1>1, <2>1, ChangeForgets DEF Appear
  <1>2. CASE Vanish
    BY <1>2, ChangeForgets DEF Vanish
  <1>3. CASE ResolveNode
    <2>1. PICK unprobed \in SUBSET Probed : \E kind \in {"video", "serial"} :
             \E given \in {Nothing} \cup (IF kind = "video" THEN Serials ELSE Videos) :
                attempt' = [given |-> given, unprobed |-> unprobed,
                            node |-> Selected(kind, given, Pairs(unprobed))]
      BY <1>3 DEF ResolveNode
    <2>2. PICK kind \in {"video", "serial"} :
             \E given \in {Nothing} \cup (IF kind = "video" THEN Serials ELSE Videos) :
                attempt' = [given |-> given, unprobed |-> unprobed,
                            node |-> Selected(kind, given, Pairs(unprobed))]
      BY <2>1
    <2>3. PICK given \in {Nothing} \cup (IF kind = "video" THEN Serials ELSE Videos) :
              attempt' = [given |-> given, unprobed |-> unprobed,
                          node |-> Selected(kind, given, Pairs(unprobed))]
      BY <2>2
    <2>4. UNCHANGED <<nodes, cards>>
      BY <1>3 DEF ResolveNode
    <2> DEFINE node == Selected(kind, given, Pairs(unprobed))
    <2>5. /\ node # Nothing =>
                /\ node.owner \in Dongles
                /\ node.function = "metadata" => node \in unprobed
                /\ IF given = Nothing THEN Whole \subseteq {node.owner}
                   ELSE node.owner = given.owner
          /\ node = Nothing =>
                \/ given # Nothing \/ Cardinality(Whole) # 1
                \/ \E n \in unprobed : n.owner \notin Whole \/ n.function = "capture"
      BY SelectionSound
    <2>6. attempt' = [given |-> given, unprobed |-> unprobed, node |-> node]
      BY <2>3
    <2> HIDE DEF node
    <2>7. /\ attempt'.given = given /\ attempt'.unprobed = unprobed /\ attempt'.node = node
          /\ "node" \in DOMAIN attempt'
      BY <2>6
    <2>8. Whole' = Whole
      BY <2>4 DEF Whole
    <2>9. NeverGuesses'
      BY <2>5, <2>7, <2>8 DEF NeverGuesses, Resolved
    <2> QED
      BY <2>4, <2>9
  <1>4. CASE ResolveCard
    <2>1. PICK d \in Dongles : attempt' = [card |-> CardOf(VideoDevice[d]), of |-> d]
      BY <1>4 DEF ResolveCard
    <2>2. UNCHANGED <<nodes, cards>>
      BY <1>4 DEF ResolveCard
    <2>3. CardOf(VideoDevice[d]) \in {Nothing, d}
      BY CardSound
    <2>4. /\ attempt'.card = CardOf(VideoDevice[d]) /\ attempt'.of = d
          /\ "node" \notin DOMAIN attempt'
      BY <2>1
    <2>5. NeverGuesses'
      BY <2>3, <2>4 DEF NeverGuesses, Resolved
    <2> QED
      BY <2>2, <2>5
  <1>5. CASE UNCHANGED discoveryVars
    BY <1>5 DEF discoveryVars, NeverGuesses, Resolved, Whole
  <1> QED
    BY <1>1, <1>2, <1>3, <1>4, <1>5 DEF DiscoveryNext

\* With nothing plugged in there is nothing to guess.
LEMMA DiscoveryStarts == DiscoveryInit => DiscoveryInv
  BY DEF DiscoveryInit, Unplugged, DiscoveryInv, NeverGuesses, Resolved

\* NodeResolver::resolve, discover, inventory and CardResolver::resolve: for any
\* number of dongles and foreign devices, however their nodes come and go and
\* whichever probes fail, what is selected is half of the only whole dongle or of
\* the one the user named, and a card is that of the same dongle.
THEOREM SelectionNeverGuesses == DiscoverySpec => []NeverGuesses
  <1>1. DiscoveryInv => NeverGuesses
    BY DEF DiscoveryInv
  <1> QED
    BY <1>1, DiscoveryStarts, DiscoveryStep, PTL DEF DiscoverySpec
=============================================================================
