------------------------- MODULE DemoControlsProofs -------------------------
(***************************************************************************)
(* Proofs about the operator controls, for any number of browsers, any     *)
(* measurements and any number of control messages and restarts.           *)
(*                                                                         *)
(* LockInv says what the lock protects: only its holder waits for a control*)
(* message, so that at most one is awaited, and none while a comparison    *)
(* collects; MessageInv, that any other message is an older one.           *)
(* WindowInv says that a call only reads a window that is over.            *)
(* That no call leaves the line without answering, or stays in it when it  *)
(* has, bounds the messages that are sent.                                 *)
(***************************************************************************)
EXTENDS DemoControls, SequenceTheorems, TLAPS

\* A comparison; one call of the lock's holder makes one.
Comparison ==
    [status : {"collecting", "complete", "insufficient"}, elapsed : BOOLEAN,
     before : Readings,
     after : {NoReading} \cup [window : Nat, values : Readings],
     summary : {"none", "incomparable", "no errors observed", "errors remain"}]

\* Who waits for an answer holds the lock, and nobody does during a comparison.
LockInv ==
    /\ DOMAIN op = Clients /\ lockq \in Seq(Clients) /\ posts \in Nat
    /\ \A c \in Clients : Posted(c) => Holds(c)
    /\ Collecting => \A c \in Clients : ~Posted(c)

\* What is known of the messages.  A message has a number of its own, and the one
\* the holder waits for has the last number.  Once that one is applied, and its
\* answer on the way, it cannot be applied again: inventory is as the holder
\* wanted it, unless a message nobody waits for came after it.
MessageInv ==
    /\ \A m \in wire : m.post \in Nat /\ m.post <= posts
    /\ \A m, n \in wire : m.post = n.post => m = n
    /\ (\A c \in Clients : ~Posted(c)) => applied = {}
    /\ \A c \in Clients : Posted(c) =>
          /\ op[c].post = posts /\ applied \subseteq {posts}
          /\ \A m \in wire : m.post = posts => m.want = op[c].want
          /\ posts \in applied =>
                /\ \A m \in wire : m.post # posts
                /\ setBy = "late" \/ (setBy = "call" /\ delayed = op[c].want)
          /\ op[c].pc = "reset posted" => op[c].want = "off"

\* A call reads a window that is over, and verdicts are those of their windows.
WindowInv ==
    /\ snaps \in Seq(Comparison) /\ current = Len(snaps)
    /\ \A c \in Clients :
        /\ op[c].pc = "reset posted" => op[c].before \in Readings
        /\ op[c].pc = "reading" => op[c].snap \in 1..Len(snaps) /\ snaps[op[c].snap].elapsed
    /\ VerdictFromOwnWindow

ControlInv == LockInv /\ MessageInv /\ WindowInv
                /\ AcknowledgedStateHolds /\ MeasuredWithoutFault
-----------------------------------------------------------------------------
(* The line for the lock.                                                   *)

LEMMA Line ==
  ASSUME LockInv
  PROVE  /\ \A c, d \in Clients : Posted(c) /\ Holds(d) => c = d
         /\ \A c \in Clients : Holds(c) => lockq # <<>> /\ Tail(lockq) \in Seq(Clients)
         /\ \A c \in Clients : /\ Append(lockq, c) \in Seq(Clients)
                               /\ Append(lockq, c) # <<>>
                               /\ lockq # <<>> => Head(Append(lockq, c)) = Head(lockq)
<1>1. lockq \in Seq(Clients)
  BY DEF LockInv
<1>2. \A c, d \in Clients : Posted(c) /\ Holds(d) => c = d
  BY DEF LockInv, Holds
<1>3. \A c \in Clients : Holds(c) => lockq # <<>> /\ Tail(lockq) \in Seq(Clients)
  BY <1>1, HeadTailProperties DEF Holds
<1>4. \A c \in Clients : Append(lockq, c) \in Seq(Clients) /\ Append(lockq, c) # <<>>
  BY <1>1, AppendProperties
<1>5. ASSUME NEW c \in Clients, lockq # <<>> PROVE Head(Append(lockq, c)) = Head(lockq)
  <2>1. Len(lockq) \in Nat /\ Len(lockq) > 0
    BY <1>1, <1>5, EmptySeq, LenProperties
  <2>2. Append(lockq, c)[1] = lockq[1]
    BY <1>1, <2>1, AppendProperties
  <2>3. QED
    BY <1>1, <1>4, <1>5, <2>2, HeadTailProperties
<1>6. QED
  BY <1>2, <1>3, <1>4, <1>5

\* A call of client c moves on.
LEMMA Moves ==
  ASSUME LockInv, NEW c \in Clients, NEW call, op' = [op EXCEPT ![c] = call]
  PROVE  /\ DOMAIN op' = Clients /\ op'[c] = call
         /\ \A d \in Clients : d # c => op'[d] = op[d] /\ (Posted(d)' <=> Posted(d))
         /\ Posted(c)' <=> call.pc \in {"fault posted", "reset posted"}
<1>1. DOMAIN op = Clients
  BY DEF LockInv
<1>2. DOMAIN op' = Clients /\ op'[c] = call /\ \A d \in Clients : d # c => op'[d] = op[d]
  BY <1>1
<1>3. QED
  BY <1>2 DEF Posted

\* A call ends, and no other one waits for an answer.
LEMMA Returns ==
  ASSUME LockInv, NEW c \in Clients, op' = [op EXCEPT ![c] = Idle],
         \A d \in Clients : d # c => ~Posted(d)
  PROVE  /\ DOMAIN op' = Clients /\ op'[c].pc = "idle"
         /\ \A d \in Clients : d # c => op'[d] = op[d]
         /\ \A d \in Clients : ~Posted(d)'
<1>1. Idle.pc = "idle"
  BY DEF Idle
<1>2. /\ DOMAIN op' = Clients /\ op'[c] = Idle
      /\ \A d \in Clients : d # c => op'[d] = op[d] /\ ~Posted(d)'
  BY Moves
<1>3. ~Posted(c)'
  BY <1>1, <1>2 DEF Posted
<1>4. QED
  BY <1>1, <1>2, <1>3

\* The holder is alone: if it waits for no answer, nobody does.
LEMMA HolderAlone ==
  ASSUME LockInv, NEW c \in Clients, Holds(c)
  PROVE  /\ \A d \in Clients : d # c => ~Posted(d)
         /\ ~Posted(c) => \A d \in Clients : ~Posted(d)
BY Line

LEMMA InvInit == Init => ControlInv
<1>1. SUFFICES ASSUME Init PROVE ControlInv
  OBVIOUS
<1>2. /\ op = [c \in Clients |-> Idle] /\ lockq = <<>> /\ snaps = <<>> /\ current = 0
      /\ posts = 0 /\ wire = {} /\ applied = {} /\ lastControl = "none"
  BY <1>1 DEF Init
<1>3. \A c \in Clients : op[c].pc = "idle" /\ ~Posted(c)
  BY <1>2 DEF Idle, Posted
<1>4. ~Collecting
  BY <1>2 DEF Collecting
<1>5. LockInv
  BY <1>2, <1>3, <1>4 DEF LockInv
<1>6. WindowInv
  <2>1. snaps \in Seq(Comparison) /\ Len(snaps) = 0 /\ DOMAIN snaps = {}
    BY <1>2
  <2>2. QED
    BY <1>2, <1>3, <2>1 DEF WindowInv, VerdictFromOwnWindow
<1>7. MessageInv /\ AcknowledgedStateHolds /\ MeasuredWithoutFault
  BY <1>2, <1>3, <1>4 DEF MessageInv, AcknowledgedStateHolds, MeasuredWithoutFault
<1>8. QED
  BY <1>5, <1>6, <1>7 DEF ControlInv

\* What the line does when client c joins it, or leaves it as its holder.
LineMoves(c) == \/ lockq' = lockq
                \/ lockq' = Append(lockq, c)
                \/ Holds(c) /\ lockq' = Tail(lockq)

LEMMA LineStep ==
  ASSUME LockInv, NEW c \in Clients, LineMoves(c), ~Posted(c)
  PROVE  /\ lockq' \in Seq(Clients)
         /\ \A d \in Clients : Posted(d) => Holds(d)'
<1>1. lockq \in Seq(Clients) /\ \A d \in Clients : Posted(d) => Holds(d)
  BY DEF LockInv
<1>2. CASE lockq' = lockq
  BY <1>1, <1>2 DEF Holds
<1>3. CASE lockq' = Append(lockq, c)
  BY <1>1, <1>3, Line DEF Holds
<1>4. CASE Holds(c) /\ lockq' = Tail(lockq)
  BY <1>4, Line, HolderAlone
<1>5. QED
  BY <1>2, <1>3, <1>4 DEF LineMoves

\* A step that touches no message keeps what is known of them.
LEMMA MessageStays ==
  ASSUME MessageInv, wire' = wire, applied' = applied, delayed' = delayed, setBy' = setBy,
         posts' = posts,
         \A d \in Clients : Posted(d)' <=> Posted(d),
         \A d \in Clients : Posted(d) => op'[d] = op[d]
  PROVE  MessageInv'
<1>1. /\ \A m \in wire' : m.post \in Nat /\ m.post <= posts'
      /\ \A m, n \in wire' : m.post = n.post => m = n
      /\ (\A c \in Clients : ~Posted(c)') => applied' = {}
  BY DEF MessageInv
<1>2. ASSUME NEW d \in Clients, Posted(d)'
      PROVE  /\ op'[d].post = posts' /\ applied' \subseteq {posts'}
             /\ \A m \in wire' : m.post = posts' => m.want = op'[d].want
             /\ posts' \in applied' =>
                   /\ \A m \in wire' : m.post # posts'
                   /\ setBy' = "late" \/ (setBy' = "call" /\ delayed' = op'[d].want)
             /\ op'[d].pc = "reset posted" => op'[d].want = "off"
  <2>1. Posted(d) /\ op'[d] = op[d]
    BY <1>2
  <2>2. QED
    BY <2>1 DEF MessageInv
<1>3. QED
  BY <1>1, <1>2 DEF MessageInv

\* Steps that send nothing, receive nothing and measure nothing.
LEMMA QuietStep ==
  ASSUME ControlInv, NEW c \in Clients, NEW call,
         op' = [op EXCEPT ![c] = call], ~Posted(c), LineMoves(c),
         call.pc \in {"idle", "fault", "reset", "reading"},
         call.pc = "reading" => call.snap \in 1..Len(snaps) /\ snaps[call.snap].elapsed,
         UNCHANGED <<faultEnabled, snaps, current, posts, inventory, history>>
  PROVE  ControlInv'
<1>1. LockInv /\ MessageInv /\ WindowInv /\ AcknowledgedStateHolds /\ MeasuredWithoutFault
  BY DEF ControlInv
<1>2. /\ DOMAIN op' = Clients /\ op'[c] = call
      /\ \A d \in Clients : d # c => op'[d] = op[d]
  BY <1>1, Moves
<1>3. \A d \in Clients : Posted(d)' <=> Posted(d)
  BY <1>1, Moves
<1>4. lockq' \in Seq(Clients) /\ \A d \in Clients : Posted(d) => Holds(d)'
  BY <1>1, LineStep
<1>5. /\ faultEnabled' = faultEnabled /\ snaps' = snaps /\ current' = current /\ posts' = posts
      /\ wire' = wire /\ applied' = applied /\ delayed' = delayed /\ setBy' = setBy
  BY DEF inventory, history
<1>6. Collecting' <=> Collecting
  BY <1>5 DEF Collecting
<1>7. \A d \in Clients : Posted(d) => op'[d] = op[d]
  BY <1>2
<1>8. LockInv'
  BY <1>1, <1>2, <1>3, <1>4, <1>5, <1>6 DEF LockInv
<1>9. MessageInv'
  BY <1>1, <1>3, <1>5, <1>7, MessageStays
<1>10. WindowInv'
  <2>1. VerdictFromOwnWindow'
    BY <1>1, <1>5 DEF WindowInv, VerdictFromOwnWindow
  <2>2. QED
    BY <1>1, <1>2, <1>5, <2>1 DEF WindowInv
<1>11. AcknowledgedStateHolds' /\ MeasuredWithoutFault'
  <2>1. lastControl' = lastControl
    BY DEF history
  <2>2. QED
    BY <1>1, <1>3, <1>5, <1>6, <2>1 DEF AcknowledgedStateHolds, MeasuredWithoutFault
<1>12. QED
  BY <1>8, <1>9, <1>10, <1>11 DEF ControlInv
-----------------------------------------------------------------------------
(* Control messages.                                                        *)

LEMMA Later == \A i, j, k \in Nat : k <= k /\ (i <= j /\ k > j => i # k /\ i <= k)
OBVIOUS

\* The holder sends its message.
LEMMA PostStep ==
  ASSUME ControlInv, NEW c \in Clients, NEW call, Holds(c), ~Posted(c), ~Collecting,
         Post(c, call), call.pc \in {"fault posted", "reset posted"}, call.post \in Nat, call.post > posts,
         call.pc = "reset posted" => call.want = "off" /\ call.before \in Readings
  PROVE  ControlInv'
<1>1. LockInv /\ MessageInv /\ WindowInv /\ AcknowledgedStateHolds /\ MeasuredWithoutFault
  BY DEF ControlInv
<1>2. /\ posts' = call.post /\ wire' = wire \cup {[post |-> call.post, want |-> call.want]}
      /\ op' = [op EXCEPT ![c] = call]
      /\ lockq' = lockq /\ faultEnabled' = faultEnabled /\ snaps' = snaps
      /\ current' = current /\ applied' = applied /\ delayed' = delayed /\ setBy' = setBy
  BY DEF Post, history
<1>3. \A d \in Clients : ~Posted(d)
  BY <1>1, HolderAlone
<1>4. /\ DOMAIN op' = Clients /\ op'[c] = call
      /\ \A d \in Clients : d # c => op'[d] = op[d] /\ ~Posted(d)'
      /\ Posted(c)'
  BY <1>1, <1>2, <1>3, Moves
<1>5. ~Collecting' /\ Holds(c)' /\ posts \in Nat /\ posts' \in Nat /\ posts' > posts
  <2>1. ~Collecting' /\ Holds(c)'
    BY <1>2 DEF Collecting, Holds
  <2>2. posts \in Nat
    BY <1>1 DEF LockInv
  <2>3. posts' \in Nat /\ posts' > posts
    BY <1>2
  <2>4. QED
    BY <2>1, <2>2, <2>3
<1>6. LockInv'
  <2>1. posts' \in Nat
    BY <1>5
  <2>2. QED
    BY <1>1, <1>2, <1>4, <1>5, <2>1 DEF LockInv
<1>7. MessageInv'
  <2> DEFINE new == [post |-> call.post, want |-> call.want]
  <2>1. new.post = posts' /\ new.want = call.want
    BY <1>2
  <2>2. wire' = wire \cup {new}
    BY <1>2
  <2>3. \A m \in wire : m.post \in Nat /\ m.post <= posts
    BY <1>1 DEF MessageInv
  <2>4. \A m \in wire : m.post # posts' /\ m.post <= posts'
    BY <1>5, <2>3, Later
  <2> HIDE DEF new
  <2>5. \A m \in wire' : m.post \in Nat /\ m.post <= posts'
    <3>1. new.post \in Nat /\ new.post <= posts'
      BY <1>5, <2>1, Later
    <3>2. QED
      BY <2>2, <2>3, <2>4, <3>1
  <2>6. \A m, n \in wire' : m.post = n.post => m = n
    BY <1>1, <2>1, <2>2, <2>4 DEF MessageInv
  <2>7. applied' = {}
    BY <1>1, <1>2, <1>3 DEF MessageInv
  <2>8. \A m \in wire' : m.post = posts' => m.want = op'[c].want
    BY <1>4, <2>1, <2>2, <2>4
  <2>9. ASSUME NEW d \in Clients, Posted(d)' PROVE d = c
    BY <1>4, <2>9
  <2>10. op'[c].post = posts' /\ (op'[c].pc = "reset posted" => op'[c].want = "off")
    BY <1>2, <1>4
  <2>11. QED
    BY <2>5, <2>6, <2>7, <2>8, <2>9, <2>10 DEF MessageInv
<1>8. WindowInv'
  <2>1. VerdictFromOwnWindow'
    BY <1>1, <1>2 DEF WindowInv, VerdictFromOwnWindow
  <2>2. QED
    BY <1>1, <1>2, <1>4, <2>1 DEF WindowInv
<1>9. AcknowledgedStateHolds' /\ MeasuredWithoutFault'
  <2>1. ~(\A d \in Clients : ~Posted(d)')
    BY <1>4, Zenon
  <2>2. QED
    BY <1>5, <2>1 DEF AcknowledgedStateHolds, MeasuredWithoutFault
<1>10. QED
  BY <1>6, <1>7, <1>8, <1>9 DEF ControlInv

LEMMA AckStep ==
  ASSUME ControlInv, NEW c \in Clients, PostAcked(c)
  PROVE  ControlInv'
<1>1. LockInv /\ MessageInv /\ WindowInv /\ AcknowledgedStateHolds /\ MeasuredWithoutFault
  BY DEF ControlInv
<1>2. /\ Posted(c) /\ op[c].post \in applied /\ faultEnabled' = op[c].want
      /\ op' = [op EXCEPT ![c] = Idle] /\ lockq' = Tail(lockq)
      /\ applied' = applied \ {op[c].post}
      /\ posts' = posts /\ wire' = wire /\ delayed' = delayed /\ setBy' = setBy
  BY DEF PostAcked, Return, Release
<1>3. Holds(c) /\ \A d \in Clients : d # c => ~Posted(d)
  BY <1>1, <1>2, HolderAlone DEF LockInv
<1>4. /\ DOMAIN op' = Clients /\ op'[c].pc = "idle"
      /\ \A d \in Clients : d # c => op'[d] = op[d]
      /\ \A d \in Clients : ~Posted(d)'
  BY <1>1, <1>2, <1>3, Returns
<1>5. /\ applied' = {} /\ (setBy' = "late" \/ delayed' = faultEnabled')
      /\ op[c].pc = "reset posted" => op[c].want = "off"
  BY <1>1, <1>2 DEF MessageInv
<1>6. MessageInv' /\ AcknowledgedStateHolds'
  BY <1>1, <1>2, <1>4, <1>5 DEF MessageInv, AcknowledgedStateHolds
<1>7. LockInv'
  <2>1. lockq' \in Seq(Clients)
    BY <1>1, <1>2, <1>3, Line
  <2>2. QED
    BY <1>1, <1>2, <1>4, <2>1 DEF LockInv
<1>8. CASE op[c].pc = "reset posted"
  <2> DEFINE new == [status |-> "collecting", elapsed |-> FALSE, before |-> op[c].before,
                     after |-> NoReading, summary |-> "none"]
  <2>1. snaps' = Append(snaps, new) /\ current' = Len(snaps) + 1
    BY <1>8 DEF PostAcked
  <2>2. new \in Comparison
    BY <1>1, <1>8 DEF WindowInv, Comparison
  <2>3. snaps \in Seq(Comparison) /\ Len(snaps) \in Nat /\ DOMAIN snaps = 1..Len(snaps)
    BY <1>1, LenProperties DEF WindowInv
  <2> HIDE DEF new
  <2>4. /\ snaps' \in Seq(Comparison) /\ Len(snaps') = Len(snaps) + 1
        /\ \A i \in 1..Len(snaps) : snaps'[i] = snaps[i]
        /\ snaps'[Len(snaps) + 1] = new /\ DOMAIN snaps' = 1..(Len(snaps) + 1)
    BY <2>1, <2>2, <2>3, AppendProperties, LenProperties
  <2>5. VerdictFromOwnWindow'
    <3>1. ASSUME NEW i \in DOMAIN snaps', snaps'[i].status # "collecting"
          PROVE  i \in DOMAIN snaps /\ snaps'[i] = snaps[i]
      <4>1. i # Len(snaps) + 1
        BY <2>4, <3>1 DEF new
      <4>2. QED
        BY <2>3, <2>4, <3>1, <4>1
    <3>2. QED
      BY <1>1, <3>1 DEF WindowInv, VerdictFromOwnWindow
  <2>6. \A d \in Clients : /\ op'[d].pc = "reset posted" => op'[d].before \in Readings
                           /\ op'[d].pc = "reading" => /\ op'[d].snap \in 1..Len(snaps')
                                                       /\ snaps'[op'[d].snap].elapsed
    <3>1. \A i \in 1..Len(snaps) : i \in 1..Len(snaps')
      BY <2>3, <2>4
    <3>2. \A d \in Clients : op[d].pc = "reading" =>
              op[d].snap \in 1..Len(snaps) /\ snaps[op[d].snap].elapsed
      BY <1>1 DEF WindowInv
    <3>3. \A d \in Clients : op[d].pc = "reading" =>
              op[d].snap \in 1..Len(snaps') /\ snaps'[op[d].snap].elapsed
      BY <2>4, <3>1, <3>2
    <3>4. \A d \in Clients : op[d].pc = "reset posted" => op[d].before \in Readings
      BY <1>1 DEF WindowInv
    <3>5. QED
      BY <1>4, <3>3, <3>4
  <2>7. WindowInv'
    BY <2>1, <2>4, <2>5, <2>6 DEF WindowInv
  <2>8. MeasuredWithoutFault'
    <3>1. setBy' = "late" \/ delayed' = "off"
      BY <1>2, <1>5, <1>8
    <3>2. QED
      BY <1>4, <3>1 DEF MeasuredWithoutFault
  <2>9. QED
    BY <1>6, <1>7, <2>7, <2>8 DEF ControlInv
<1>9. CASE op[c].pc # "reset posted"
  <2>1. snaps' = snaps /\ current' = current
    BY <1>9 DEF PostAcked
  <2>2. ~Collecting'
    BY <1>1, <1>2, <2>1 DEF LockInv, Collecting
  <2>3. VerdictFromOwnWindow'
    BY <1>1, <2>1 DEF WindowInv, VerdictFromOwnWindow
  <2>4. WindowInv'
    BY <1>1, <1>4, <2>1, <2>3 DEF WindowInv
  <2>5. QED
    BY <1>6, <1>7, <2>2, <2>4 DEF ControlInv, MeasuredWithoutFault
<1>10. QED
  BY <1>8, <1>9

LEMMA FailStep ==
  ASSUME ControlInv, NEW c \in Clients, PostFailed(c)
  PROVE  ControlInv'
<1>1. LockInv /\ MessageInv /\ WindowInv /\ MeasuredWithoutFault
  BY DEF ControlInv
<1>2. /\ Posted(c) /\ op' = [op EXCEPT ![c] = Idle] /\ lockq' = Tail(lockq)
      /\ applied' = applied \ {op[c].post} /\ lastControl' = "failed"
      /\ posts' = posts /\ snaps' = snaps /\ current' = current /\ wire' = wire
      /\ delayed' = delayed /\ setBy' = setBy
  BY DEF PostFailed, Return, Release
<1>3. Holds(c) /\ \A d \in Clients : d # c => ~Posted(d)
  BY <1>1, <1>2, HolderAlone DEF LockInv
<1>4. /\ DOMAIN op' = Clients /\ op'[c].pc = "idle"
      /\ \A d \in Clients : d # c => op'[d] = op[d]
      /\ \A d \in Clients : ~Posted(d)'
  BY <1>1, <1>2, <1>3, Returns
<1>5. LockInv'
  <2>1. lockq' \in Seq(Clients)
    BY <1>1, <1>2, <1>3, Line
  <2>2. QED
    BY <1>1, <1>2, <1>4, <2>1 DEF LockInv
<1>6. WindowInv'
  <2>1. VerdictFromOwnWindow'
    BY <1>1, <1>2 DEF WindowInv, VerdictFromOwnWindow
  <2>2. QED
    BY <1>1, <1>2, <1>4, <2>1 DEF WindowInv
<1>7. MessageInv' /\ AcknowledgedStateHolds' /\ MeasuredWithoutFault'
  <2>1. applied' = {}
    BY <1>1, <1>2 DEF MessageInv
  <2>2. MessageInv'
    BY <1>1, <1>2, <1>4, <2>1 DEF MessageInv
  <2>3. ~Collecting'
    BY <1>1, <1>2 DEF LockInv, Collecting
  <2>4. QED
    BY <1>2, <2>2, <2>3 DEF AcknowledgedStateHolds, MeasuredWithoutFault
<1>8. QED
  BY <1>5, <1>6, <1>7 DEF ControlInv

\* inventory is told, or the message is lost.
LEMMA WireStep ==
  ASSUME ControlInv, NEW m \in wire, Apply(m) \/ Lose(m)
  PROVE  ControlInv'
<1>1. LockInv /\ MessageInv /\ WindowInv /\ AcknowledgedStateHolds /\ MeasuredWithoutFault
  BY DEF ControlInv
<1>2. /\ wire' = wire \ {m} /\ posts' = posts
      /\ op' = op /\ lockq' = lockq /\ faultEnabled' = faultEnabled /\ snaps' = snaps
      /\ current' = current /\ lastControl' = lastControl
  BY DEF Apply, Lose, console, history
<1>3. LockInv'
  BY <1>1, <1>2 DEF LockInv, Posted, Holds, Collecting
<1>4. WindowInv'
  BY <1>1, <1>2 DEF WindowInv, VerdictFromOwnWindow
<1>5. /\ \A d \in Clients : Posted(d)' <=> Posted(d)
      /\ Collecting' <=> Collecting
  BY <1>2 DEF Posted, Collecting
<1>6. /\ \A n \in wire' : n \in wire
      /\ \A n \in wire' : n.post \in Nat /\ n.post <= posts'
      /\ \A n, k \in wire' : n.post = k.post => n = k
  BY <1>1, <1>2 DEF MessageInv
<1>7. \/ applied' = applied /\ delayed' = delayed /\ setBy' = setBy
      \/ applied' = applied /\ setBy' = "late"
      \/ applied' = applied \cup {m.post} /\ setBy' = "call" /\ delayed' = m.want /\ Awaited(m)
  <2>1. CASE Lose(m)
    BY <2>1 DEF Lose, history
  <2>2. CASE Apply(m)
    BY <2>2 DEF Apply
  <2>3. QED
    BY <2>1, <2>2
<1>8. CASE applied' = applied /\ delayed' = delayed /\ setBy' = setBy
  <2>1. MessageInv'
    BY <1>1, <1>2, <1>5, <1>6, <1>8 DEF MessageInv
  <2>2. AcknowledgedStateHolds' /\ MeasuredWithoutFault'
    BY <1>1, <1>2, <1>5, <1>8 DEF AcknowledgedStateHolds, MeasuredWithoutFault
  <2>3. QED
    BY <1>3, <1>4, <2>1, <2>2 DEF ControlInv
<1>9. CASE applied' = applied /\ setBy' = "late"
  <2>1. MessageInv'
    BY <1>1, <1>2, <1>5, <1>6, <1>9 DEF MessageInv
  <2>2. AcknowledgedStateHolds' /\ MeasuredWithoutFault'
    BY <1>1, <1>5, <1>9 DEF AcknowledgedStateHolds, MeasuredWithoutFault
  <2>3. QED
    BY <1>3, <1>4, <2>1, <2>2 DEF ControlInv
<1>10. CASE applied' = applied \cup {m.post} /\ setBy' = "call" /\ delayed' = m.want /\ Awaited(m)
  <2>1. PICK c \in Clients : Posted(c) /\ op[c].post = m.post
    BY <1>10 DEF Awaited
  <2>2. \A d \in Clients : Posted(d) => d = c
    BY <1>1, <2>1, Line DEF LockInv
  <2>3. /\ op[c].post = posts /\ applied \subseteq {posts}
        /\ m.post = posts /\ m.want = op[c].want
        /\ op[c].pc = "reset posted" => op[c].want = "off"
    BY <1>1, <2>1 DEF MessageInv
  <2>4. \A n \in wire' : n.post # posts'
    BY <1>1, <1>2, <2>3 DEF MessageInv
  <2>5. ~(\A d \in Clients : ~Posted(d)')
    BY <1>5, <2>1
  <2>6. applied' \subseteq {posts'} /\ delayed' = op'[c].want /\ op'[c].post = posts'
    BY <1>2, <1>10, <2>3
  <2>7. \A d \in Clients : Posted(d)' => d = c
    BY <1>5, <2>2
  <2>8. MessageInv'
    BY <1>2, <1>6, <1>10, <2>3, <2>4, <2>5, <2>6, <2>7 DEF MessageInv
  <2>9. ~Collecting'
    BY <1>1, <1>5, <2>1 DEF LockInv
  <2>10. QED
    BY <1>3, <1>4, <2>5, <2>8, <2>9
    DEF ControlInv, AcknowledgedStateHolds, MeasuredWithoutFault
<1>11. QED
  BY <1>7, <1>8, <1>9, <1>10
-----------------------------------------------------------------------------
(* Measurements, time and restarts.                                         *)

\* A verdict is written.
LEMMA ConcludeStep ==
  ASSUME ControlInv, NEW c \in Clients, NEW r \in Readings, Conclude(c, r)
  PROVE  ControlInv'
<1> DEFINE i == op[c].snap
           b == snaps[i].before
           verdict == [snaps[i] EXCEPT !.after = [window |-> i, values |-> r],
                         !.status = IF Sufficient(b, r) THEN "complete" ELSE "insufficient",
                         !.summary = Summary(b, r)]
<1>1. LockInv /\ MessageInv /\ WindowInv /\ AcknowledgedStateHolds /\ MeasuredWithoutFault
  BY DEF ControlInv
<1>2. /\ op[c].pc = "reading" /\ op' = [op EXCEPT ![c] = Idle] /\ LineMoves(c)
      /\ faultEnabled' = faultEnabled /\ current' = current /\ posts' = posts
      /\ wire' = wire /\ applied' = applied /\ delayed' = delayed /\ setBy' = setBy
      /\ lastControl' = lastControl
  BY DEF Conclude, Return, Release, LineMoves, inventory, history
<1>3. snaps' = [snaps EXCEPT ![i] = verdict]
  BY DEF Conclude
<1>4. /\ snaps \in Seq(Comparison) /\ Len(snaps) \in Nat /\ DOMAIN snaps = 1..Len(snaps)
      /\ snaps \in [1..Len(snaps) -> Comparison] /\ i \in 1..Len(snaps) /\ snaps[i].elapsed
  BY <1>1, <1>2, LenProperties DEF WindowInv
<1>5. /\ verdict.status = (IF Sufficient(b, r) THEN "complete" ELSE "insufficient")
      /\ verdict.after = [window |-> i, values |-> r] /\ verdict.before = b
      /\ verdict.elapsed = snaps[i].elapsed /\ verdict.summary = Summary(b, r)
      /\ verdict \in Comparison
  <2>1. snaps[i] \in Comparison
    BY <1>4
  <2>2. [window |-> i, values |-> r] \in [window : Nat, values : Readings]
    BY <1>4
  <2>3. Summary(b, r) \in {"incomparable", "no errors observed", "errors remain"}
    BY DEF Summary
  <2>4. QED
    BY <2>1, <2>2, <2>3 DEF Comparison
<1> HIDE DEF verdict
<1>6. /\ snaps' \in Seq(Comparison) /\ Len(snaps') = Len(snaps) /\ DOMAIN snaps' = 1..Len(snaps)
      /\ snaps'[i] = verdict /\ \A j \in 1..Len(snaps) : j # i => snaps'[j] = snaps[j]
  <2>1. snaps' \in [1..Len(snaps) -> Comparison]
    BY <1>3, <1>4, <1>5
  <2>2. snaps' \in Seq(Comparison)
    BY <1>4, <2>1, SeqDef
  <2>3. DOMAIN snaps' = 1..Len(snaps) /\ Len(snaps') \in Nat /\ DOMAIN snaps' = 1..Len(snaps')
    BY <2>1, <2>2, LenProperties
  <2>4. Len(snaps') = Len(snaps)
    BY <1>4, <2>3
  <2>5. QED
    BY <1>3, <1>4, <2>2, <2>3, <2>4
<1>7. ~Posted(c)
  BY <1>2 DEF Posted
<1>8. /\ DOMAIN op' = Clients /\ op'[c].pc = "idle"
      /\ \A d \in Clients : d # c => op'[d] = op[d]
      /\ \A d \in Clients : Posted(d)' <=> Posted(d)
  <2>1. Idle.pc = "idle"
    BY DEF Idle
  <2>2. /\ DOMAIN op' = Clients /\ op'[c] = Idle
        /\ \A d \in Clients : d # c => op'[d] = op[d] /\ (Posted(d)' <=> Posted(d))
    BY <1>1, <1>2, Moves
  <2>3. ~Posted(c)'
    BY <2>1, <2>2 DEF Posted
  <2>4. QED
    BY <1>7, <2>1, <2>2, <2>3
<1>9. Collecting' => Collecting
  <2>1. CASE current = i
    BY <1>2, <1>5, <1>6, <2>1 DEF Collecting
  <2>2. CASE current # i
    <3>1. current # 0 => current \in 1..Len(snaps)
      <4>1. current = Len(snaps)
        BY <1>1 DEF WindowInv
      <4>2. QED
        BY <1>4, <4>1
    <3>2. QED
      BY <1>2, <1>6, <2>2, <3>1 DEF Collecting
  <2>3. QED
    BY <2>1, <2>2
<1>10. LockInv'
  <2>1. lockq' \in Seq(Clients) /\ \A d \in Clients : Posted(d) => Holds(d)'
    BY <1>1, <1>2, <1>7, LineStep
  <2>2. QED
    BY <1>1, <1>2, <1>8, <1>9, <2>1 DEF LockInv
<1>11. MessageInv'
  <2>1. \A d \in Clients : Posted(d) => op'[d] = op[d]
    BY <1>7, <1>8
  <2>2. QED
    BY <1>1, <1>2, <1>8, <2>1, MessageStays
<1>12. WindowInv'
  <2>1. VerdictFromOwnWindow'
    <3>1. ASSUME NEW j \in 1..Len(snaps), snaps'[j].status # "collecting"
          PROVE  /\ snaps'[j].elapsed /\ snaps'[j].after.window = j
                 /\ snaps'[j].status = "complete"
                      <=> Sufficient(snaps'[j].before, snaps'[j].after.values)
                 /\ snaps'[j].summary = Summary(snaps'[j].before, snaps'[j].after.values)
      <4>1. CASE j = i
        <5>1. snaps'[j] = verdict /\ verdict.elapsed
          BY <1>4, <1>5, <1>6, <4>1
        <5>2. verdict.after.window = i /\ verdict.after.values = r
          BY <1>5
        <5>3. verdict.status = "complete" <=> Sufficient(verdict.before, verdict.after.values)
          BY <1>5, <5>2
        <5>4. verdict.summary = Summary(verdict.before, verdict.after.values)
          BY <1>5, <5>2
        <5>5. QED
          BY <4>1, <5>1, <5>2, <5>3, <5>4
      <4>2. CASE j # i
        BY <1>1, <1>4, <1>6, <3>1, <4>2 DEF WindowInv, VerdictFromOwnWindow
      <4>3. QED
        BY <4>1, <4>2
    <3>2. QED
      BY <1>6, <3>1 DEF VerdictFromOwnWindow
  <2>2. \A j \in 1..Len(snaps) : snaps[j].elapsed => snaps'[j].elapsed
    BY <1>4, <1>5, <1>6
  <2>3. \A d \in Clients : op'[d].pc = "reading" =>
            op'[d].snap \in 1..Len(snaps') /\ snaps'[op'[d].snap].elapsed
    BY <1>1, <1>6, <1>8, <2>2 DEF WindowInv
  <2>4. \A d \in Clients : op'[d].pc = "reset posted" => op'[d].before \in Readings
    BY <1>1, <1>8 DEF WindowInv
  <2>5. current' = Len(snaps')
    BY <1>1, <1>2, <1>6 DEF WindowInv
  <2>6. QED
    BY <1>6, <2>1, <2>3, <2>4, <2>5 DEF WindowInv
<1>13. AcknowledgedStateHolds' /\ MeasuredWithoutFault'
  BY <1>1, <1>2, <1>8, <1>9 DEF AcknowledgedStateHolds, MeasuredWithoutFault
<1>14. QED
  BY <1>10, <1>11, <1>12, <1>13 DEF ControlInv

LEMMA ElapseStep ==
  ASSUME ControlInv, WindowElapses
  PROVE  ControlInv'
<1>1. LockInv /\ MessageInv /\ WindowInv /\ AcknowledgedStateHolds /\ MeasuredWithoutFault
  BY DEF ControlInv
<1>2. /\ Collecting /\ snaps' = [snaps EXCEPT ![current].elapsed = TRUE]
      /\ op' = op /\ lockq' = lockq /\ faultEnabled' = faultEnabled /\ current' = current
      /\ posts' = posts /\ wire' = wire /\ applied' = applied /\ delayed' = delayed
      /\ setBy' = setBy /\ lastControl' = lastControl
  BY DEF WindowElapses, inventory, history
<1>3. /\ Len(snaps) \in Nat /\ snaps \in [1..Len(snaps) -> Comparison]
      /\ current \in 1..Len(snaps) /\ snaps[current].status = "collecting"
  <2>1. Len(snaps) \in Nat /\ snaps \in [1..Len(snaps) -> Comparison]
    BY <1>1, LenProperties DEF WindowInv
  <2>2. current # 0 /\ snaps[current].status = "collecting"
    BY <1>2 DEF Collecting
  <2>3. current = Len(snaps)
    BY <1>1 DEF WindowInv
  <2>4. QED
    BY <2>1, <2>2, <2>3
<1>4. [snaps[current] EXCEPT !.elapsed = TRUE] \in Comparison
  BY <1>3 DEF Comparison
<1>5. /\ snaps' \in Seq(Comparison) /\ Len(snaps') = Len(snaps) /\ DOMAIN snaps' = 1..Len(snaps)
      /\ snaps'[current].elapsed /\ snaps'[current].status = "collecting"
      /\ \A j \in 1..Len(snaps) : j # current => snaps'[j] = snaps[j]
  <2>1. snaps' \in [1..Len(snaps) -> Comparison]
    BY <1>2, <1>3, <1>4
  <2>2. snaps' \in Seq(Comparison)
    BY <1>3, <2>1, SeqDef
  <2>3. DOMAIN snaps' = 1..Len(snaps) /\ Len(snaps') \in Nat /\ DOMAIN snaps' = 1..Len(snaps')
    BY <2>1, <2>2, LenProperties
  <2>4. Len(snaps') = Len(snaps)
    BY <1>3, <2>3
  <2>5. snaps'[current] = [snaps[current] EXCEPT !.elapsed = TRUE]
    BY <1>2, <1>3
  <2>6. snaps'[current].elapsed /\ snaps'[current].status = "collecting"
    BY <1>3, <2>5 DEF Comparison
  <2>7. QED
    BY <1>2, <1>3, <2>2, <2>3, <2>4, <2>6
<1>6. \A d \in Clients : Posted(d)' <=> Posted(d)
  BY <1>2 DEF Posted
<1>7. LockInv'
  BY <1>1, <1>2, <1>6 DEF LockInv, Holds
<1>8. MessageInv'
  BY <1>1, <1>2, <1>6, MessageStays
<1>9. WindowInv'
  <2>1. VerdictFromOwnWindow'
    <3>1. \A j \in 1..Len(snaps) : snaps'[j].status # "collecting"
              => j \in DOMAIN snaps /\ snaps'[j] = snaps[j] /\ snaps[j].status # "collecting"
      BY <1>3, <1>5
    <3>2. ASSUME NEW j \in 1..Len(snaps), snaps'[j].status # "collecting"
          PROVE  /\ snaps'[j].elapsed /\ snaps'[j].after.window = j
                 /\ snaps'[j].status = "complete"
                      <=> Sufficient(snaps'[j].before, snaps'[j].after.values)
                 /\ snaps'[j].summary = Summary(snaps'[j].before, snaps'[j].after.values)
      <4>1. j \in DOMAIN snaps /\ snaps'[j] = snaps[j] /\ snaps[j].status # "collecting"
        BY <3>1, <3>2
      <4>2. VerdictFromOwnWindow
        BY <1>1 DEF WindowInv
      <4>3. /\ snaps[j].elapsed /\ snaps[j].after.window = j
            /\ snaps[j].status = "complete"
                 <=> Sufficient(snaps[j].before, snaps[j].after.values)
            /\ snaps[j].summary = Summary(snaps[j].before, snaps[j].after.values)
        BY <4>1, <4>2 DEF VerdictFromOwnWindow
      <4>4. QED
        BY <4>1, <4>3
    <3>3. QED
      BY <1>5, <3>2 DEF VerdictFromOwnWindow
  <2>2. \A j \in 1..Len(snaps) : snaps[j].elapsed => snaps'[j].elapsed
    BY <1>5
  <2>3. QED
    BY <1>1, <1>2, <1>5, <2>1, <2>2 DEF WindowInv
<1>10. AcknowledgedStateHolds' /\ MeasuredWithoutFault'
  BY <1>1, <1>2, <1>6 DEF AcknowledgedStateHolds, MeasuredWithoutFault
<1>11. QED
  BY <1>7, <1>8, <1>9, <1>10 DEF ControlInv

LEMMA RestartStep ==
  ASSUME ControlInv, InventoryRestarts \/ ConsoleRestarts
  PROVE  ControlInv'
<1>1. LockInv /\ MessageInv /\ WindowInv /\ AcknowledgedStateHolds /\ MeasuredWithoutFault
  BY DEF ControlInv
<1>3. CASE InventoryRestarts
  <2>1. /\ op' = op /\ lockq' = lockq /\ snaps' = snaps /\ current' = current
        /\ posts' = posts /\ wire' = {} /\ applied' = {} /\ delayed' = "off" /\ setBy' = "start"
    BY <1>3 DEF InventoryRestarts, console
  <2>2. LockInv'
    BY <1>1, <2>1 DEF LockInv, Posted, Holds, Collecting
  <2>3. WindowInv'
    BY <1>1, <2>1 DEF WindowInv, VerdictFromOwnWindow
  <2>4. /\ \A d \in Clients : Posted(d)' <=> Posted(d)
        /\ Collecting' <=> Collecting
    BY <2>1 DEF Posted, Collecting
  <2>5. MessageInv'
    BY <1>1, <2>1, <2>4 DEF MessageInv
  <2>6. AcknowledgedStateHolds' /\ MeasuredWithoutFault'
    BY <1>1, <2>1, <2>4 DEF AcknowledgedStateHolds, MeasuredWithoutFault
  <2>7. QED
    BY <2>2, <2>3, <2>5, <2>6 DEF ControlInv
<1>4. CASE ConsoleRestarts
  <2>1. /\ op' = [c \in Clients |-> Idle] /\ lockq' = <<>> /\ snaps' = <<>> /\ current' = 0
        /\ posts' = posts /\ wire' = wire /\ applied' = {} /\ lastControl' = "none"
    BY <1>4 DEF ConsoleRestarts
  <2>2. DOMAIN op' = Clients /\ \A c \in Clients : op'[c].pc = "idle" /\ ~Posted(c)'
    BY <2>1 DEF Idle, Posted
  <2>3. LockInv'
    BY <1>1, <2>1, <2>2 DEF LockInv
  <2>4. snaps' \in Seq(Comparison) /\ Len(snaps') = 0 /\ DOMAIN snaps' = {}
    BY <2>1
  <2>5. WindowInv'
    BY <2>1, <2>2, <2>4 DEF WindowInv, VerdictFromOwnWindow
  <2>6. MessageInv'
    BY <1>1, <2>1, <2>2 DEF MessageInv
  <2>7. AcknowledgedStateHolds' /\ MeasuredWithoutFault'
    BY <2>1 DEF AcknowledgedStateHolds, MeasuredWithoutFault, Collecting
  <2>8. QED
    BY <2>3, <2>5, <2>6, <2>7 DEF ControlInv
<1>5. QED
  BY <1>3, <1>4

\* The steps of a call in progress, and what a new one does.
LEMMA CallStep ==
  ASSUME ControlInv, NEW c \in Clients, Step(c)
  PROVE  ControlInv'
<1>1. LockInv /\ WindowInv
  BY DEF ControlInv
<1>2. Idle.pc = "idle"
  BY DEF Idle
<1>3. CASE FaultRefused(c)
  <2>1. ~Posted(c) /\ op' = [op EXCEPT ![c] = Idle] /\ LineMoves(c)
    BY <1>3 DEF FaultRefused, Posted, Return, Release, LineMoves
  <2>2. UNCHANGED <<faultEnabled, snaps, current, posts, inventory, history>>
    BY <1>3 DEF FaultRefused
  <2>3. QED
    BY <1>2, <2>1, <2>2, QuietStep
<1>4. CASE FaultPost(c)
  <2> DEFINE call == [pc |-> "fault posted", want |-> op[c].want, post |-> posts + 1]
  <2>1. Holds(c) /\ ~Posted(c) /\ ~Collecting /\ Post(c, call)
    BY <1>4 DEF FaultPost, Posted
  <2>2. call.pc = "fault posted" /\ call.post \in Nat /\ call.post > posts
    BY <1>1 DEF LockInv
  <2> HIDE DEF call
  <2>3. QED
    BY <2>1, <2>2, PostStep
<1>5. CASE ResetAgain(c)
  <2>1. /\ Collecting /\ Holds(c) /\ ~Posted(c)
        /\ UNCHANGED <<faultEnabled, snaps, current, posts, inventory, history>>
    BY <1>5 DEF ResetAgain, Posted
  <2>2. CASE snaps[current].elapsed
    <3> DEFINE call == [pc |-> "reading", snap |-> current]
    <3>1. op' = [op EXCEPT ![c] = call] /\ LineMoves(c)
      BY <1>5, <2>2 DEF ResetAgain, LineMoves
    <3>2. current \in 1..Len(snaps)
      <4>1. current = Len(snaps) /\ Len(snaps) \in Nat /\ current # 0
        BY <1>1, <2>1, LenProperties DEF WindowInv, Collecting
      <4>2. QED
        BY <4>1
    <3>3. call.pc = "reading" /\ call.snap = current
      OBVIOUS
    <3> HIDE DEF call
    <3>4. QED
      BY <2>1, <2>2, <3>1, <3>2, <3>3, QuietStep
  <2>3. CASE ~snaps[current].elapsed
    <3>1. op' = [op EXCEPT ![c] = Idle] /\ LineMoves(c)
      BY <1>5, <2>1, <2>3 DEF ResetAgain, Return, Release, LineMoves
    <3>2. QED
      BY <1>2, <2>1, <3>1, QuietStep
  <2>4. QED
    BY <2>2, <2>3
<1>6. ASSUME NEW r \in Readings, ResetReads(c, r) PROVE ControlInv'
  <2> DEFINE call == [pc |-> "reset posted", want |-> "off", post |-> posts + 1, before |-> r]
  <2>1. Holds(c) /\ ~Posted(c) /\ ~Collecting /\ Post(c, call)
    BY <1>6 DEF ResetReads, Posted
  <2>2. /\ call.pc = "reset posted" /\ call.post \in Nat /\ call.post > posts
        /\ call.want = "off" /\ call.before \in Readings
    BY <1>1 DEF LockInv
  <2> HIDE DEF call
  <2>3. QED
    BY <2>1, <2>2, PostStep
<1>7. QED
  BY <1>3, <1>4, <1>5, <1>6, AckStep, FailStep, ConcludeStep DEF Step

LEMMA NewCallStep ==
  ASSUME ControlInv, NEW c \in Clients,
         \/ \E want \in {"on", "off"} : CallFault(c, want)
         \/ CallReset(c)
         \/ CallRecovery(c)
  PROVE  ControlInv'
<1>1. LockInv /\ WindowInv
  BY DEF ControlInv
<1>2. ASSUME NEW call, Enter(c, call), call.pc \in {"fault", "reset"} PROVE ControlInv'
  <2>1. ~Posted(c) /\ op' = [op EXCEPT ![c] = call] /\ LineMoves(c)
    BY <1>2 DEF Enter, Posted, LineMoves
  <2>2. UNCHANGED <<faultEnabled, snaps, current, posts, inventory, history>>
    BY <1>2 DEF Enter
  <2>3. QED
    BY <1>2, <2>1, <2>2, QuietStep
<1>3. CASE CallRecovery(c)
  <2> DEFINE call == [pc |-> "reading", snap |-> current]
  <2>1. /\ ~Posted(c) /\ Collecting /\ snaps[current].elapsed
        /\ op' = [op EXCEPT ![c] = call] /\ LineMoves(c)
        /\ UNCHANGED <<faultEnabled, snaps, current, posts, inventory, history>>
    BY <1>3 DEF CallRecovery, Posted, LineMoves
  <2>2. current \in 1..Len(snaps)
    <3>1. current = Len(snaps) /\ Len(snaps) \in Nat /\ current # 0
      BY <1>1, <2>1, LenProperties DEF WindowInv, Collecting
    <3>2. QED
      BY <3>1
  <2>3. call.pc = "reading" /\ call.snap = current
    OBVIOUS
  <2> HIDE DEF call
  <2>4. QED
    BY <2>1, <2>2, <2>3, QuietStep
<1>4. QED
  BY <1>2, <1>3 DEF CallFault, CallReset

LEMMA InvInductive ==
  ASSUME ControlInv, [Next]_vars
  PROVE  ControlInv'
<1>1. CASE UNCHANGED vars
  <2>1. /\ op' = op /\ lockq' = lockq /\ faultEnabled' = faultEnabled /\ snaps' = snaps
        /\ current' = current /\ posts' = posts /\ wire' = wire /\ applied' = applied
        /\ delayed' = delayed /\ setBy' = setBy /\ lastControl' = lastControl
    BY <1>1 DEF vars, console, inventory, history
  <2>2. /\ \A d \in Clients : Posted(d)' <=> Posted(d)
        /\ Collecting' <=> Collecting
    BY <2>1 DEF Posted, Collecting
  <2>3. LockInv' /\ WindowInv'
    BY <2>1, <2>2 DEF ControlInv, LockInv, WindowInv, VerdictFromOwnWindow, Holds
  <2>4. MessageInv'
    BY <2>1, <2>2, MessageStays DEF ControlInv
  <2>5. AcknowledgedStateHolds' /\ MeasuredWithoutFault'
    BY <2>1, <2>2 DEF ControlInv, AcknowledgedStateHolds, MeasuredWithoutFault
  <2>6. QED
    BY <2>3, <2>4, <2>5 DEF ControlInv
<1>2. QED
  BY <1>1, CallStep, NewCallStep, ElapseStep, WireStep, RestartStep DEF Next

THEOREM ControlInvariant == Spec => []ControlInv
<1>1. ControlInv /\ [Next]_vars => ControlInv'
  BY InvInductive
<1>2. QED
  BY InvInit, <1>1, PTL DEF Spec
-----------------------------------------------------------------------------
(* After an acknowledged control the console reports the state inventory is *)
(* in, until inventory restarts or applies a message that had been given up *)
(* on, and no longer than to the next acknowledged control                  *)
(* (console.py:59-68,193-216).                                              *)
THEOREM AcknowledgedStateAlwaysHolds == Spec => []AcknowledgedStateHolds
<1>1. ControlInv => AcknowledgedStateHolds
  BY DEF ControlInv
<1>2. QED
  BY <1>1, ControlInvariant, PTL

(* While a recovery is measured nobody waits for a control message, and a    *)
(* delay that is on was switched on by a message given up on before: lost   *)
(* answers and restarts are all in the specification (console.py:196-197).  *)
THEOREM AlwaysMeasuredWithoutFault == Spec => []MeasuredWithoutFault
<1>1. ControlInv => MeasuredWithoutFault
  BY DEF ControlInv
<1>2. QED
  BY <1>1, ControlInvariant, PTL

(* Every verdict is that of its own window, over when it was measured       *)
(* (console.py:218-248).                                                    *)
THEOREM VerdictAlwaysFromOwnWindow == Spec => []VerdictFromOwnWindow
<1>1. ControlInv => VerdictFromOwnWindow
  BY DEF ControlInv, WindowInv
<1>2. QED
  BY <1>1, ControlInvariant, PTL
-----------------------------------------------------------------------------
(* A verdict nobody reads any more stays.                                   *)

\* One call moves on, and does not begin to read window i.
LEMMA StaysSettled ==
  ASSUME LockInv, NEW i, Settled(i), snaps'[i] = snaps[i],
         NEW c \in Clients, NEW call, op' = [op EXCEPT ![c] = call],
         call.pc = "reading" => call.snap # i
  PROVE  Settled(i)'
BY DEF Settled, LockInv

LEMMA VerdictStays ==
  ASSUME ControlInv, [Next]_vars, NEW i \in DOMAIN snaps \cap DOMAIN snaps', Settled(i)
  PROVE  Settled(i)' /\ snaps'[i] = snaps[i]
<1>1. LockInv /\ WindowInv
  BY DEF ControlInv
<1>2. Idle.pc # "reading"
  BY DEF Idle
<1>3. Collecting => current # i
  BY DEF Settled, Collecting
<1>4. ASSUME NEW c \in Clients, UNCHANGED snaps, NEW call, op' = [op EXCEPT ![c] = call],
             call.pc = "reading" => call.snap # i
      PROVE  Settled(i)' /\ snaps'[i] = snaps[i]
  BY <1>1, <1>4, StaysSettled
<1>5. ASSUME NEW c \in Clients, UNCHANGED snaps, op' = [op EXCEPT ![c] = Idle]
      PROVE  Settled(i)' /\ snaps'[i] = snaps[i]
  BY <1>2, <1>4, <1>5
<1>6. ASSUME UNCHANGED <<snaps, op>>
      PROVE  Settled(i)' /\ snaps'[i] = snaps[i]
  BY <1>6 DEF Settled
<1>7. ASSUME NEW c \in Clients, NEW call, Post(c, call), call.pc # "reading"
      PROVE  Settled(i)' /\ snaps'[i] = snaps[i]
  BY <1>4, <1>7 DEF Post
<1>8. ASSUME NEW c \in Clients, Step(c)
      PROVE  Settled(i)' /\ snaps'[i] = snaps[i]
  <2>1. CASE FaultRefused(c) \/ PostFailed(c)
    BY <1>5, <2>1 DEF FaultRefused, PostFailed, Return
  <2>2. CASE FaultPost(c)
    BY <1>7, <2>2 DEF FaultPost
  <2>3. CASE ResetAgain(c)
    BY <1>3, <1>4, <1>5, <2>3 DEF ResetAgain, Return
  <2>4. ASSUME NEW r \in Readings, ResetReads(c, r)
        PROVE  Settled(i)' /\ snaps'[i] = snaps[i]
    BY <1>7, <2>4 DEF ResetReads
  <2>5. CASE PostAcked(c)
    <3>1. snaps'[i] = snaps[i]
      <4>1. CASE UNCHANGED snaps
        BY <4>1
      <4>2. ASSUME NEW s, snaps' = Append(snaps, s) PROVE snaps'[i] = snaps[i]
        BY <4>2
      <4>3. QED
        BY <2>5, <4>1, <4>2 DEF PostAcked
    <3>2. op' = [op EXCEPT ![c] = Idle]
      BY <2>5 DEF PostAcked, Return
    <3>3. QED
      BY <1>1, <1>2, <3>1, <3>2, StaysSettled
  <2>6. ASSUME NEW r \in Readings, Conclude(c, r)
        PROVE  Settled(i)' /\ snaps'[i] = snaps[i]
    <3>1. op[c].snap # i
      BY <2>6 DEF Conclude, Settled
    <3>2. snaps'[i] = snaps[i] /\ op' = [op EXCEPT ![c] = Idle]
      BY <2>6, <3>1 DEF Conclude, Return
    <3>3. QED
      BY <1>1, <1>2, <3>2, StaysSettled
  <2>7. QED
    BY <1>8, <2>1, <2>2, <2>3, <2>4, <2>5, <2>6 DEF Step
<1>9. CASE Next
  <2>1. ASSUME NEW c \in Clients, NEW call, Enter(c, call), call.pc # "reading"
        PROVE  Settled(i)' /\ snaps'[i] = snaps[i]
    BY <1>4, <2>1 DEF Enter
  <2>2. ASSUME NEW c \in Clients, NEW want, CallFault(c, want) \/ CallReset(c)
        PROVE  Settled(i)' /\ snaps'[i] = snaps[i]
    BY <2>1, <2>2 DEF CallFault, CallReset
  <2>3. ASSUME NEW c \in Clients, CallRecovery(c)
        PROVE  Settled(i)' /\ snaps'[i] = snaps[i]
    BY <1>3, <1>4, <2>3 DEF CallRecovery
  <2>4. CASE WindowElapses
    <3>1. snaps'[i] = snaps[i] /\ op' = op
      BY <1>3, <2>4 DEF WindowElapses
    <3>2. QED
      BY <3>1 DEF Settled
  <2>5. CASE (\E m \in wire : Apply(m) \/ Lose(m)) \/ InventoryRestarts
    BY <1>6, <2>5 DEF Apply, Lose, InventoryRestarts, console
  <2>6. CASE ConsoleRestarts
    BY <2>6 DEF ConsoleRestarts
  <2>7. QED
    BY <1>8, <1>9, <2>2, <2>3, <2>4, <2>5, <2>6 DEF Next
<1>10. CASE UNCHANGED vars
  BY <1>6, <1>10 DEF vars, console
<1>11. QED
  BY <1>9, <1>10

\* A reset is answered with the running comparison, it never replaces it.
LEMMA ComparisonKept ==
  ASSUME ControlInv, [Next]_vars, Collecting
  PROVE  ~(current' > current)
<1>1. /\ \A c \in Clients : ~Posted(c)
      /\ current = Len(snaps) /\ Len(snaps) \in Nat
  BY LenProperties DEF ControlInv, LockInv, WindowInv
<1>2. UNCHANGED current \/ current' = 0
  BY <1>1 DEF Next, vars, console, Step, CallFault, CallReset, Enter, CallRecovery,
       FaultRefused, FaultPost, ResetAgain, ResetReads, Post, PostAcked, PostFailed, Conclude,
       WindowElapses, Apply, Lose, InventoryRestarts, ConsoleRestarts
<1>3. QED
  BY <1>1, <1>2

(* Once no call reads its window any more, a verdict stays as it was        *)
(* reported, and no reset replaces a comparison that is collecting          *)
(* (console.py:204-205,226-248).                                            *)
THEOREM VerdictAlwaysSettles == Spec => VerdictSettles
<1>1. ControlInv /\ [Next]_vars =>
        [/\ \A i \in DOMAIN snaps \cap DOMAIN snaps' :
               Settled(i) => Settled(i)' /\ snaps'[i] = snaps[i]
         /\ ~(Collecting /\ current' > current)]_vars
  BY VerdictStays, ComparisonKept
<1>2. QED
  BY <1>1, ControlInvariant, PTL DEF Spec, VerdictSettles
-----------------------------------------------------------------------------
(* Who stands in the line for the lock.                                     *)

InLine(c) == c \in ToSet(lockq)

\* A call that needs the lock is in the line, once, and nobody stays in it who has
\* answered; a reading in the line is that of a repeated reset, which holds the lock.
LineInv ==
    /\ IsInjective(lockq)
    /\ \A c \in Clients :
        /\ op[c].pc = "idle" => ~InLine(c)
        /\ op[c].pc \in {"fault", "reset", "fault posted", "reset posted"} => InLine(c)
        /\ op[c].pc = "reading" /\ InLine(c) => Holds(c)

\* The last of a line, and the line without its first.
LEMMA JoinLine ==
  ASSUME NEW S, NEW s \in Seq(S), NEW e \in S, e \notin ToSet(s), IsInjective(s)
  PROVE  ToSet(Append(s, e)) = ToSet(s) \cup {e} /\ IsInjective(Append(s, e))
<1> DEFINE t == Append(s, e)
<1>1. /\ Len(t) = Len(s) + 1 /\ Len(s) \in Nat /\ t[Len(s) + 1] = e
      /\ \A i \in 1..Len(s) : t[i] = s[i]
  BY AppendProperties, LenProperties
<1>2. DOMAIN s = 1..Len(s) /\ DOMAIN t = 1..(Len(s) + 1)
  BY <1>1, AppendProperties, LenProperties
<1>3. \A i \in 1..(Len(s) + 1) : i \in 1..Len(s) \/ i = Len(s) + 1
  BY <1>1
<1>4. 1..Len(s) \subseteq 1..(Len(s) + 1) /\ Len(s) + 1 \in 1..(Len(s) + 1)
  BY <1>1
<1> HIDE DEF t
<1>5. ToSet(t) = ToSet(s) \cup {e}
  BY <1>1, <1>2, <1>3, <1>4 DEF ToSet
<1>6. IsInjective(t)
  BY <1>1, <1>2, <1>3 DEF ToSet, IsInjective
<1>7. QED
  BY <1>5, <1>6 DEF t

LEMMA LeaveLine ==
  ASSUME NEW S, NEW s \in Seq(S), s # <<>>, IsInjective(s)
  PROVE  ToSet(Tail(s)) = ToSet(s) \ {Head(s)} /\ IsInjective(Tail(s))
<1> DEFINE t == Tail(s)
<1>1. Len(s) \in Nat /\ Len(s) > 0 /\ Head(s) = s[1]
  BY EmptySeq, LenProperties
<1>2. t \in Seq(S) /\ Len(t) = Len(s) - 1 /\ \A i \in 1..Len(t) : t[i] = s[i + 1]
  BY HeadTailProperties
<1>3. DOMAIN s = 1..Len(s) /\ DOMAIN t = 1..(Len(s) - 1)
  BY <1>2, LenProperties
<1> HIDE DEF t
<1>4. /\ \A i \in 1..(Len(s) - 1) : t[i] = s[i + 1] /\ i + 1 \in 1..Len(s) /\ i + 1 # 1
      /\ \A i \in 1..Len(s) : i = 1 \/ (i - 1 \in 1..(Len(s) - 1) /\ s[i] = t[i - 1])
      /\ 1 \in 1..Len(s)
  BY <1>1, <1>2
<1>5. ToSet(t) \subseteq ToSet(s) \ {Head(s)}
  <2>1. \A i \in 1..(Len(s) - 1) : t[i] \in ToSet(s)
    BY <1>3, <1>4 DEF ToSet
  <2>2. \A i \in 1..(Len(s) - 1) : t[i] # s[1]
    BY <1>3, <1>4 DEF IsInjective
  <2>3. QED
    BY <1>1, <1>3, <2>1, <2>2 DEF ToSet
<1>6. ToSet(s) \ {Head(s)} \subseteq ToSet(t)
  BY <1>1, <1>3, <1>4 DEF ToSet
<1>7. IsInjective(t)
  <2>1. SUFFICES ASSUME NEW i \in 1..(Len(s) - 1), NEW j \in 1..(Len(s) - 1), t[i] = t[j]
                 PROVE  i = j
    BY <1>3 DEF IsInjective
  <2>2. i + 1 = j + 1
    BY <1>3, <1>4, <2>1 DEF IsInjective
  <2>3. QED
    BY <1>1, <2>2
<1>8. QED
  BY <1>5, <1>6, <1>7 DEF t

\* A call joins the line, its holder leaves it, or a call moves on where it is.
LEMMA Joins ==
  ASSUME LockInv, LineInv, NEW c \in Clients, NEW call, op[c].pc = "idle",
         op' = [op EXCEPT ![c] = call], call.pc \in {"fault", "reset"},
         lockq' = Append(lockq, c)
  PROVE  LineInv'
<1>1. ToSet(lockq') = ToSet(lockq) \cup {c} /\ IsInjective(lockq')
  <2>1. lockq \in Seq(Clients) /\ c \notin ToSet(lockq) /\ IsInjective(lockq)
    BY DEF LockInv, LineInv, InLine
  <2>2. QED
    BY <2>1, JoinLine, Zenon
<1>2. op'[c] = call /\ \A d \in Clients : d # c => op'[d] = op[d]
  BY DEF LockInv
<1>3. \A d \in Clients : Holds(d) => Holds(d)'
  BY Line DEF Holds
<1>4. QED
  BY <1>1, <1>2, <1>3 DEF LineInv, InLine

LEMMA Leaves ==
  ASSUME LockInv, LineInv, NEW c \in Clients, Holds(c), Return(c), Release
  PROVE  LineInv'
<1>1. lockq' = Tail(lockq) /\ c = Head(lockq) /\ lockq # <<>> /\ lockq \in Seq(Clients)
  BY DEF LockInv, Holds, Release
<1>2. ToSet(lockq') = ToSet(lockq) \ {c} /\ IsInjective(lockq')
  BY <1>1, LeaveLine DEF LineInv
<1>3. op'[c].pc = "idle" /\ \A d \in Clients : d # c => op'[d] = op[d]
  BY DEF LockInv, Return, Idle
<1>4. \A d \in Clients : Holds(d) => d = c
  BY <1>1 DEF Holds
<1>5. QED
  BY <1>2, <1>3, <1>4 DEF LineInv, InLine

LEMMA FirstInLine ==
  ASSUME NEW S, NEW s \in Seq(S), s # <<>>
  PROVE  Head(s) \in ToSet(s)
<1>1. Len(s) \in Nat /\ Len(s) > 0 /\ Head(s) = s[1]
  BY EmptySeq, LenProperties
<1>2. DOMAIN s = 1..Len(s) /\ 1 \in 1..Len(s)
  BY <1>1, LenProperties
<1>3. QED
  BY <1>1, <1>2 DEF ToSet

LEMMA MovesOn ==
  ASSUME LockInv, LineInv, NEW c \in Clients, NEW call,
         op' = [op EXCEPT ![c] = call], lockq' = lockq,
         \/ call.pc \in {"fault posted", "reset posted", "reading"} /\ Holds(c)
         \/ call.pc \in {"idle", "reading"} /\ ~InLine(c)
  PROVE  LineInv'
<1>1. op'[c] = call /\ \A d \in Clients : d # c => op'[d] = op[d]
  BY DEF LockInv
<1>2. Holds(c) => InLine(c)
  BY FirstInLine DEF LockInv, Holds, InLine
<1>3. \A d \in Clients : (InLine(d)' <=> InLine(d)) /\ (Holds(d)' <=> Holds(d))
  BY DEF InLine, Holds
<1>4. IsInjective(lockq')
  BY DEF LineInv
<1>5. QED
  BY <1>1, <1>2, <1>3, <1>4 DEF LineInv

LEMMA NobodyInLine == IsInjective(<<>>) /\ ToSet(<<>>) = {}
<1>1. DOMAIN <<>> = {}
  OBVIOUS
<1>2. QED
  BY <1>1 DEF IsInjective, ToSet

LEMMA LineKept ==
  ASSUME ControlInv, LineInv, [Next]_vars
  PROVE  LineInv'
<1>1. LockInv
  BY DEF ControlInv
<1>2. ASSUME UNCHANGED <<op, lockq>> PROVE LineInv'
  BY <1>2 DEF LineInv, InLine, Holds
<1>3. ASSUME NEW c \in Clients,
             \/ \E want \in {"on", "off"} : CallFault(c, want)
             \/ CallReset(c)
      PROVE  LineInv'
  BY <1>1, <1>3, Joins DEF CallFault, CallReset, Enter
<1>4. ASSUME NEW c \in Clients, CallRecovery(c) PROVE LineInv'
  BY <1>1, <1>4, MovesOn DEF CallRecovery, LineInv
<1>5. ASSUME NEW c \in Clients, Step(c) PROVE LineInv'
  <2>1. CASE FaultRefused(c)
    BY <1>1, <2>1, Leaves DEF FaultRefused
  <2>2. CASE FaultPost(c) \/ \E r \in Readings : ResetReads(c, r)
    <3>1. ASSUME NEW call, Holds(c), Post(c, call), call.pc \in {"fault posted", "reset posted"}
          PROVE  LineInv'
      BY <1>1, <3>1, MovesOn DEF Post
    <3>2. CASE FaultPost(c)
      <4> DEFINE call == [pc |-> "fault posted", want |-> op[c].want, post |-> posts + 1]
      <4>1. Holds(c) /\ Post(c, call) /\ call.pc = "fault posted"
        BY <3>2 DEF FaultPost
      <4> HIDE DEF call
      <4>2. QED
        BY <3>1, <4>1
    <3>3. ASSUME NEW r \in Readings, ResetReads(c, r) PROVE LineInv'
      <4> DEFINE call == [pc |-> "reset posted", want |-> "off", post |-> posts + 1,
                          before |-> r]
      <4>1. Holds(c) /\ Post(c, call) /\ call.pc = "reset posted"
        BY <3>3 DEF ResetReads
      <4> HIDE DEF call
      <4>2. QED
        BY <3>1, <4>1
    <3>4. QED
      BY <2>2, <3>2, <3>3
  <2>3. CASE ResetAgain(c)
    <3>1. Holds(c) /\ (\/ /\ op' = [op EXCEPT ![c] = [pc |-> "reading", snap |-> current]]
                          /\ lockq' = lockq
                       \/ Return(c) /\ Release)
      BY <2>3 DEF ResetAgain
    <3> DEFINE call == [pc |-> "reading", snap |-> current]
    <3>2. call.pc = "reading"
      OBVIOUS
    <3> HIDE DEF call
    <3>3. CASE op' = [op EXCEPT ![c] = call] /\ lockq' = lockq
      BY <1>1, <3>1, <3>2, <3>3, MovesOn
    <3>4. CASE Return(c) /\ Release
      BY <1>1, <3>1, <3>4, Leaves
    <3>5. QED
      BY <3>1, <3>3, <3>4 DEF call
  <2>4. CASE PostAcked(c) \/ PostFailed(c)
    BY <1>1, <2>4, Leaves DEF PostAcked, PostFailed, LockInv
  <2>5. CASE \E r \in Readings : Conclude(c, r)
    <3>1. op[c].pc = "reading" /\ Return(c) /\ IF Holds(c) THEN Release ELSE UNCHANGED lockq
      BY <2>5 DEF Conclude
    <3>2. CASE Holds(c)
      BY <1>1, <3>1, <3>2, Leaves
    <3>3. CASE ~Holds(c)
      <4>1. ~InLine(c) /\ Idle.pc = "idle"
        BY <3>1, <3>3 DEF LineInv, Idle
      <4>2. QED
        BY <1>1, <3>1, <3>3, <4>1, MovesOn DEF Return
    <3>4. QED
      BY <3>2, <3>3
  <2>6. QED
    BY <1>5, <2>1, <2>2, <2>3, <2>4, <2>5 DEF Step
<1>6. CASE ConsoleRestarts
  <2>1. lockq' = <<>> /\ \A c \in Clients : op'[c].pc = "idle"
    BY <1>6 DEF ConsoleRestarts, Idle
  <2>2. QED
    BY <2>1, NobodyInLine DEF LineInv, InLine
<1>7. CASE \/ WindowElapses \/ \E m \in wire : Apply(m) \/ Lose(m)
           \/ InventoryRestarts \/ UNCHANGED vars
  BY <1>2, <1>7 DEF WindowElapses, Apply, Lose, InventoryRestarts, vars, console
<1>8. QED
  BY <1>3, <1>4, <1>5, <1>6, <1>7 DEF Next

(* Nobody is left in the line for the lock: a call that has answered, was   *)
(* refused or failed is not in it, and one that needs the lock is           *)
(* (console.py:194-232).                                                    *)
THEOREM LineNeverLeaks == Spec => []LineInv
<1>1. Init => LineInv
  <2>1. Init => lockq = <<>> /\ \A c \in Clients : op[c].pc = "idle"
    BY DEF Init, Idle
  <2>2. QED
    BY <2>1, NobodyInLine DEF LineInv, InLine
<1>2. ControlInv /\ LineInv /\ [Next]_vars => LineInv'
  BY LineKept
<1>3. QED
  BY <1>1, <1>2, ControlInvariant, PTL DEF Spec
-----------------------------------------------------------------------------
(* How many control messages and comparisons there are.                     *)

LEMMA Bounds == MaxPosts \in Nat /\ MaxRestarts \in Nat
BY ControlsAssumption

Resetting(c) == op[c].pc = "reset posted"

\* Each call in the line may still send its message, except one that has, and a
\* comparison is that of an acknowledged one.
SizeInv ==
    /\ (\A c \in Clients : ~Posted(c)) => posts + Len(lockq) <= MaxPosts
    /\ posts + Len(lockq) <= MaxPosts + 1 /\ posts <= MaxPosts
    /\ Len(snaps) <= posts
    /\ \A c \in Clients : Resetting(c) => Len(snaps) < posts

\* How a step moves the line and the messages.
LEMMA SizesMove ==
  ASSUME ControlInv, SizeInv, Len(lockq') \in Nat, Len(snaps') = Len(snaps),
         \A c \in Clients : Resetting(c)' => Resetting(c),
         \/ /\ posts' = posts /\ Len(lockq') <= Len(lockq)
            /\ \A c \in Clients : Posted(c) => Posted(c)'
         \/ posts' = posts /\ Len(lockq') = Len(lockq) - 1
         \/ posts' = posts /\ posts + Len(lockq) < MaxPosts /\ Len(lockq') = Len(lockq) + 1
  PROVE  SizeInv'
<1>1. posts \in Nat /\ Len(snaps) \in Nat /\ Len(lockq) \in Nat
  BY LenProperties DEF ControlInv, LockInv, WindowInv
<1>2. /\ posts + Len(lockq) <= MaxPosts + 1 /\ posts <= MaxPosts /\ Len(snaps) <= posts
      /\ (\A c \in Clients : ~Posted(c)) => posts + Len(lockq) <= MaxPosts
      /\ \A c \in Clients : Resetting(c) => Len(snaps) < posts
  BY DEF SizeInv
<1>3. posts' = posts
  OBVIOUS
<1>4. Len(snaps') <= posts' /\ \A c \in Clients : Resetting(c)' => Len(snaps') < posts'
  BY <1>2, <1>3
<1>5. \/ Len(lockq') <= Len(lockq) /\ \A c \in Clients : Posted(c) => Posted(c)'
      \/ Len(lockq') = Len(lockq) - 1
      \/ posts + Len(lockq) < MaxPosts /\ Len(lockq') = Len(lockq) + 1
  OBVIOUS
<1>6. CASE Len(lockq') <= Len(lockq) /\ \A c \in Clients : Posted(c) => Posted(c)'
  <2>1. posts' + Len(lockq') <= posts + Len(lockq)
    BY <1>1, <1>3, <1>6
  <2>2. posts' + Len(lockq') <= MaxPosts + 1
    BY <1>1, <1>2, <1>3, <2>1, Bounds
  <2>3. (\A c \in Clients : ~Posted(c)') => posts' + Len(lockq') <= MaxPosts
    BY <1>1, <1>2, <1>3, <1>6, <2>1, Bounds
  <2>4. QED
    BY <1>2, <1>3, <1>4, <2>2, <2>3 DEF SizeInv
<1>7. CASE Len(lockq') = Len(lockq) - 1 \/ (posts + Len(lockq) < MaxPosts /\ Len(lockq') = Len(lockq) + 1)
  <2>1. posts' + Len(lockq') <= MaxPosts
    BY <1>1, <1>2, <1>3, <1>7, Bounds
  <2>2. posts' + Len(lockq') <= MaxPosts + 1
    BY <1>1, <1>3, <2>1, Bounds
  <2>3. QED
    BY <1>2, <1>3, <1>4, <2>1, <2>2 DEF SizeInv
<1>8. QED
  BY <1>5, <1>6, <1>7

LEMMA LineLengths ==
  ASSUME LockInv
  PROVE  /\ Len(lockq) \in Nat
         /\ \A c \in Clients : Len(Append(lockq, c)) = Len(lockq) + 1
         /\ \A c \in Clients : Holds(c) => Len(lockq) >= 1 /\ Len(Tail(lockq)) = Len(lockq) - 1
<1>1. lockq \in Seq(Clients)
  BY DEF LockInv
<1>2. Len(lockq) \in Nat /\ \A c \in Clients : Len(Append(lockq, c)) = Len(lockq) + 1
  BY <1>1, AppendProperties, LenProperties
<1>3. ASSUME lockq # <<>> PROVE Len(lockq) >= 1 /\ Len(Tail(lockq)) = Len(lockq) - 1
  <2>1. Len(Tail(lockq)) = Len(lockq) - 1
    BY <1>1, <1>3, HeadTailProperties
  <2>2. Len(lockq) \in Nat \ {0}
    BY <1>1, <1>3, EmptySeq
  <2>3. QED
    BY <2>1, <2>2
<1>4. QED
  BY <1>2, <1>3 DEF Holds

\* The holder sends its message, the last one its place in the line allows.
LEMMA SizePost ==
  ASSUME ControlInv, SizeInv, NEW c \in Clients, Holds(c), ~Posted(c), Posted(c)',
         posts' = posts + 1, lockq' = lockq, snaps' = snaps
  PROVE  SizeInv'
<1>1. /\ posts \in Nat /\ Len(snaps) \in Nat /\ Len(lockq) \in Nat /\ Len(lockq) >= 1
  BY LenProperties, LineLengths DEF ControlInv, LockInv, WindowInv
<1>2. \A d \in Clients : ~Posted(d)
  BY HolderAlone DEF ControlInv
<1>3. posts + Len(lockq) <= MaxPosts
  BY <1>2 DEF SizeInv
<1>4. posts' <= MaxPosts /\ posts' + Len(lockq') <= MaxPosts + 1 /\ Len(snaps') < posts'
  BY <1>1, <1>3, Bounds DEF SizeInv
<1>5. QED
  BY <1>1, <1>4 DEF SizeInv

\* A verdict, or the end of a window, is written into the list and keeps its length.
LEMMA SameLength ==
  ASSUME ControlInv, ControlInv', DOMAIN snaps' = DOMAIN snaps
  PROVE  Len(snaps') = Len(snaps)
<1>1. snaps \in Seq(Comparison) /\ snaps' \in Seq(Comparison)
  BY DEF ControlInv, WindowInv
<1>2. \A s \in Seq(Comparison) : DOMAIN s = 1..Len(s) /\ Len(s) \in Nat
  BY LenProperties
<1>3. 1..Len(snaps) = 1..Len(snaps') /\ Len(snaps) \in Nat /\ Len(snaps') \in Nat
  BY <1>1, <1>2
<1>4. QED
  BY <1>3

LEMMA SizeKept ==
  ASSUME ControlInv, SizeInv, [Next]_vars
  PROVE  SizeInv'
<1>1. /\ LockInv /\ snaps \in Seq(Comparison) /\ Len(snaps) \in Nat
      /\ DOMAIN op = Clients /\ posts \in Nat /\ Len(lockq) \in Nat /\ DOMAIN snaps = 1..Len(snaps)
  BY LenProperties, LineLengths DEF ControlInv, LockInv, WindowInv
<1>2. ASSUME UNCHANGED <<op, lockq, posts, snaps>> PROVE SizeInv'
  BY <1>2 DEF SizeInv, Posted, Resetting
<1>3. ASSUME NEW c \in Clients, NEW call, Enter(c, call), call.pc \in {"fault", "reset"}
      PROVE  SizeInv'
  <2>1. /\ posts' = posts /\ snaps' = snaps /\ posts + Len(lockq) < MaxPosts
        /\ lockq' = Append(lockq, c) /\ \A d \in Clients : Resetting(d)' => Resetting(d)
    BY <1>1, <1>3 DEF Enter, Resetting
  <2>2. Len(lockq') = Len(lockq) + 1
    BY <1>1, <2>1, LineLengths
  <2>3. QED
    BY <1>1, <2>1, <2>2, SizesMove
<1>4. ASSUME NEW c \in Clients, NEW call, op' = [op EXCEPT ![c] = call],
             call.pc \in {"idle", "reading"}, posts' = posts, Len(snaps') = Len(snaps),
             \/ lockq' = lockq /\ ~Posted(c)
             \/ Holds(c) /\ Release
      PROVE  SizeInv'
  <2>1. \A d \in Clients : Resetting(d)' => Resetting(d)
    BY <1>1, <1>4 DEF Resetting
  <2>2. CASE lockq' = lockq /\ ~Posted(c)
    <3>1. \A d \in Clients : Posted(d) => Posted(d)'
      BY <1>1, <1>4, <2>2 DEF Posted
    <3>2. QED
      BY <1>1, <1>4, <2>1, <2>2, <3>1, SizesMove
  <2>3. CASE Holds(c) /\ Release
    <3>1. Len(lockq') = Len(lockq) - 1 /\ Len(lockq') \in Nat
      BY <1>1, <2>3, LineLengths DEF Release
    <3>2. QED
      BY <1>1, <1>4, <2>1, <3>1, SizesMove
  <2>4. QED
    BY <1>4, <2>2, <2>3
<1>5. ASSUME NEW c \in Clients, CallRecovery(c) PROVE SizeInv'
  <2> DEFINE call == [pc |-> "reading", snap |-> current]
  <2>1. op' = [op EXCEPT ![c] = call] /\ UNCHANGED <<posts, snaps, lockq>> /\ ~Posted(c)
    BY <1>5 DEF CallRecovery, Posted
  <2>2. call.pc = "reading"
    OBVIOUS
  <2> HIDE DEF call
  <2>3. QED
    BY <1>4, <2>1, <2>2
<1>6. Idle.pc = "idle"
  BY DEF Idle
<1>7. ASSUME NEW c \in Clients, Step(c) PROVE SizeInv'
  <2>1. CASE FaultRefused(c)
    BY <1>4, <1>6, <2>1 DEF FaultRefused, Return
  <2>2. CASE FaultPost(c)
    <3> DEFINE call == [pc |-> "fault posted", want |-> op[c].want, post |-> posts + 1]
    <3>1. /\ Holds(c) /\ ~Posted(c) /\ Post(c, call)
          /\ call.pc = "fault posted" /\ call.post = posts + 1
      BY <2>2 DEF FaultPost, Posted
    <3> HIDE DEF call
    <3>2. Posted(c)' /\ posts' = posts + 1 /\ lockq' = lockq /\ snaps' = snaps
      BY <1>1, <3>1, Moves DEF Post
    <3>3. QED
      BY <3>1, <3>2, SizePost
  <2>3. CASE ResetAgain(c)
    <3> DEFINE call == [pc |-> "reading", snap |-> current]
    <3>1. /\ Holds(c) /\ ~Posted(c) /\ UNCHANGED <<posts, snaps>> /\ call.pc = "reading"
          /\ \/ op' = [op EXCEPT ![c] = call] /\ lockq' = lockq
             \/ Return(c) /\ Release
      BY <2>3 DEF ResetAgain, Posted
    <3> HIDE DEF call
    <3>2. QED
      BY <1>4, <1>6, <3>1 DEF Return
  <2>4. ASSUME NEW r \in Readings, ResetReads(c, r) PROVE SizeInv'
    <3> DEFINE call == [pc |-> "reset posted", want |-> "off", post |-> posts + 1, before |-> r]
    <3>1. /\ Holds(c) /\ ~Posted(c) /\ Post(c, call)
          /\ call.pc = "reset posted" /\ call.post = posts + 1
      BY <2>4 DEF ResetReads, Posted
    <3> HIDE DEF call
    <3>2. Posted(c)' /\ posts' = posts + 1 /\ lockq' = lockq /\ snaps' = snaps
      BY <1>1, <3>1, Moves DEF Post
    <3>3. QED
      BY <3>1, <3>2, SizePost
  <2>5. CASE PostAcked(c) \/ PostFailed(c)
    <3>1. /\ Posted(c) /\ Holds(c) /\ Return(c) /\ Release /\ posts' = posts
          /\ \A d \in Clients : d # c => ~Posted(d)
      BY <1>1, <2>5, HolderAlone DEF PostAcked, PostFailed, LockInv
    <3>2. CASE UNCHANGED snaps
      BY <1>4, <1>6, <3>1, <3>2 DEF Return
    <3>3. CASE ~UNCHANGED snaps
      <4> DEFINE new == [status |-> "collecting", elapsed |-> FALSE, before |-> op[c].before,
                         after |-> NoReading, summary |-> "none"]
      <4>1. op[c].pc = "reset posted" /\ snaps' = Append(snaps, new)
        BY <2>5, <3>3 DEF PostAcked, PostFailed
      <4>2. Len(snaps') = Len(snaps) + 1
        <5>1. op[c].before \in Readings
          BY <4>1 DEF ControlInv, WindowInv
        <5>2. new \in Comparison
          BY <5>1 DEF Comparison
        <5> HIDE DEF new
        <5>3. QED
          BY <1>1, <4>1, <5>2, AppendProperties
      <4>3. Len(snaps) < posts /\ posts + Len(lockq) <= MaxPosts + 1 /\ posts <= MaxPosts
        BY <4>1 DEF SizeInv, Resetting
      <4>4. Len(lockq') = Len(lockq) - 1
        BY <1>1, <3>1, LineLengths DEF Release
      <4>5. posts + Len(lockq') <= MaxPosts /\ Len(snaps') <= posts
        BY <1>1, <4>2, <4>3, <4>4, Bounds
      <4>6. \A d \in Clients : ~Posted(d)' /\ ~Resetting(d)'
        BY <1>1, <1>6, <3>1 DEF Return, Posted, Resetting
      <4>7. posts + Len(lockq') <= MaxPosts + 1
        BY <1>1, <4>3, <4>4, Bounds
      <4>8. QED
        BY <3>1, <4>3, <4>5, <4>6, <4>7 DEF SizeInv
    <3>4. QED
      BY <3>2, <3>3
  <2>6. ASSUME NEW r \in Readings, Conclude(c, r) PROVE SizeInv'
    <3>1. op[c].pc = "reading" /\ op' = [op EXCEPT ![c] = Idle] /\ posts' = posts
      BY <2>6 DEF Conclude, Return
    <3>2. Len(snaps') = Len(snaps)
      BY <2>6, InvInductive, SameLength DEF Conclude
    <3>3. ~Posted(c) /\ (lockq' = lockq \/ (Holds(c) /\ Release))
      BY <2>6 DEF Conclude, Posted
    <3>4. QED
      BY <1>4, <1>6, <3>1, <3>2, <3>3
  <2>7. QED
    BY <1>7, <2>1, <2>2, <2>3, <2>4, <2>5, <2>6 DEF Step
<1>8. CASE WindowElapses
  <2>1. UNCHANGED <<op, lockq, posts>> /\ Len(snaps') = Len(snaps)
    BY <1>8, InvInductive, SameLength DEF WindowElapses
  <2>2. QED
    BY <1>1, <2>1 DEF SizeInv, Posted, Resetting
<1>9. CASE ConsoleRestarts
  <2>1. /\ Len(lockq') = 0 /\ Len(snaps') = 0 /\ posts' = posts
        /\ \A c \in Clients : ~Resetting(c)' /\ ~Posted(c)'
    BY <1>6, <1>9 DEF ConsoleRestarts, Resetting, Posted
  <2>2. QED
    BY <1>1, <2>1, Bounds DEF SizeInv
<1>10. CASE (\E m \in wire : Apply(m) \/ Lose(m)) \/ InventoryRestarts \/ UNCHANGED vars
  BY <1>2, <1>10 DEF Apply, Lose, InventoryRestarts, vars, console
<1>11. QED
  BY <1>3, <1>5, <1>7, <1>8, <1>9, <1>10 DEF Next, CallFault, CallReset
THEOREM SizeInvariant == Spec => []SizeInv
<1>1. Init => SizeInv
  <2> SUFFICES ASSUME Init PROVE SizeInv
    OBVIOUS
  <2>1. Len(lockq) = 0 /\ Len(snaps) = 0 /\ posts = 0 /\ \A c \in Clients : ~Resetting(c)
    BY DEF Init, Resetting, Idle
  <2>2. QED
    BY <2>1, Bounds DEF SizeInv
<1>2. ControlInv /\ SizeInv /\ [Next]_vars => SizeInv'
  BY SizeKept
<1>3. QED
  BY <1>1, <1>2, ControlInvariant, PTL DEF Spec
-----------------------------------------------------------------------------
(* The kinds of things there are.                                           *)

Message == [post : 1..MaxPosts, want : {"on", "off"}]

KindInv ==
    /\ op \in [Clients -> Calls] /\ snaps \in Seq(Snapshot)
    /\ wire \subseteq Message /\ applied \subseteq 1..MaxPosts
    /\ faultEnabled \in {"on", "off", "unknown"} /\ delayed \in {"on", "off"}
    /\ restarts \in 0..MaxRestarts /\ setBy \in {"start", "call", "late"}
    /\ lastControl \in {"none", "acknowledged", "failed"}

\* What a call says of itself.
LEMMA CallShape ==
  ASSUME NEW call \in Calls
  PROVE  /\ call.pc = "fault" => call.want \in {"on", "off"}
         /\ call.pc \in {"fault posted", "reset posted"} =>
              call.want \in {"on", "off"} /\ call.post \in 1..MaxPosts
         /\ call.pc = "reset posted" => call.before \in Readings
<1>1. CASE call = Idle
  BY <1>1 DEF Idle
<1>2. CASE call \in [pc : {"fault"}, want : {"on", "off"}]
  BY <1>2
<1>3. CASE call \in [pc : {"reset"}, want : {"off"}]
  BY <1>3
<1>4. CASE call \in [pc : {"fault posted"}, want : {"on", "off"}, post : 1..MaxPosts]
  BY <1>4
<1>5. CASE call \in [pc : {"reset posted"}, want : {"off"}, post : 1..MaxPosts, before : Readings]
  BY <1>5
<1>6. CASE call \in [pc : {"reading"}, snap : 1..MaxPosts]
  BY <1>6
<1>7. QED
  BY <1>1, <1>2, <1>3, <1>4, <1>5, <1>6 DEF Calls

LEMMA NewCalls ==
  /\ Idle \in Calls
  /\ \A want \in {"on", "off"} : [pc |-> "fault", want |-> want] \in Calls
  /\ [pc |-> "reset", want |-> "off"] \in Calls
  /\ \A want \in {"on", "off"}, n \in 1..MaxPosts :
        [pc |-> "fault posted", want |-> want, post |-> n] \in Calls
  /\ \A n \in 1..MaxPosts, r \in Readings :
        [pc |-> "reset posted", want |-> "off", post |-> n, before |-> r] \in Calls
  /\ \A i \in 1..MaxPosts : [pc |-> "reading", snap |-> i] \in Calls
BY DEF Calls

\* A call moves on, and the message it may have sent leaves.
LEMMA KindMove ==
  ASSUME KindInv, NEW c \in Clients, NEW call \in Calls, op' = [op EXCEPT ![c] = call],
         UNCHANGED <<faultEnabled, snaps, applied, delayed, history>>,
         wire' \subseteq Message
  PROVE  KindInv'
BY DEF KindInv, history

LEMMA KindKept ==
  ASSUME ControlInv, SizeInv, KindInv, [Next]_vars
  PROVE  KindInv'
<1>1. /\ posts \in Nat /\ posts' \in Nat /\ posts' <= MaxPosts /\ Len(snaps) <= MaxPosts
      /\ current = Len(snaps) /\ Len(snaps) \in Nat /\ MaxPosts \in Nat
      /\ current # 0 => current \in 1..MaxPosts
  <2>1. ControlInv' /\ SizeInv'
    BY InvInductive, SizeKept
  <2>2. /\ posts \in Nat /\ posts' \in Nat /\ current = Len(snaps) /\ Len(snaps) \in Nat
    BY <2>1, LenProperties DEF ControlInv, LockInv, WindowInv
  <2>3. posts' <= MaxPosts /\ Len(snaps) <= posts /\ posts <= MaxPosts /\ MaxPosts \in Nat
    BY <2>1, Bounds DEF SizeInv
  <2>4. QED
    BY <2>2, <2>3
<1>2. ASSUME NEW c \in Clients
      PROVE  op[c] \in Calls
  BY DEF KindInv
<1>3. ASSUME NEW c \in Clients, NEW call \in Calls, op' = [op EXCEPT ![c] = call],
             UNCHANGED <<faultEnabled, snaps, inventory, history>>
      PROVE  KindInv'
  BY <1>3, KindMove DEF KindInv, inventory
<1>4. ASSUME NEW c \in Clients,
             \/ \E want \in {"on", "off"} : CallFault(c, want)
             \/ CallReset(c)
      PROVE  KindInv'
  BY <1>3, <1>4, NewCalls DEF CallFault, CallReset, Enter
<1>5. ASSUME NEW c \in Clients, CallRecovery(c) PROVE KindInv'
  <2>1. [pc |-> "reading", snap |-> current] \in Calls
    BY <1>1, <1>5, NewCalls DEF CallRecovery, Collecting
  <2>2. QED
    BY <1>3, <1>5, <2>1 DEF CallRecovery
<1>6. ASSUME NEW c \in Clients, NEW call \in Calls, Post(c, call),
             call.post \in 1..MaxPosts, call.want \in {"on", "off"}
      PROVE  KindInv'
  <2>1. [post |-> call.post, want |-> call.want] \in Message
    BY <1>6 DEF Message
  <2>2. wire' \subseteq Message
    BY <1>6, <2>1 DEF Post, KindInv
  <2>3. QED
    BY <1>6, <2>2, KindMove DEF Post
<1>7. ASSUME NEW c \in Clients, FaultRefused(c) PROVE KindInv'
  BY <1>3, <1>7, NewCalls DEF FaultRefused, Return
<1>8. ASSUME NEW c \in Clients, FaultPost(c) PROVE KindInv'
  <2> DEFINE call == [pc |-> "fault posted", want |-> op[c].want, post |-> posts + 1]
  <2>1. Post(c, call) /\ posts' = posts + 1 /\ op[c].pc = "fault"
    BY <1>8 DEF FaultPost, Post
  <2>2. op[c].want \in {"on", "off"} /\ posts + 1 \in 1..MaxPosts
    <3>1. op[c].want \in {"on", "off"}
      BY <1>2, <2>1, CallShape
    <3>2. posts' = posts + 1
      BY <2>1
    <3>3. QED
      BY <1>1, <3>1, <3>2
  <2>3. call \in Calls
    BY <2>2, NewCalls
  <2>4. call.post \in 1..MaxPosts /\ call.want \in {"on", "off"}
    BY <2>2
  <2> HIDE DEF call
  <2>5. QED
    BY <1>6, <2>1, <2>3, <2>4
<1>9. ASSUME NEW c \in Clients, NEW r \in Readings, ResetReads(c, r) PROVE KindInv'
  <2> DEFINE call == [pc |-> "reset posted", want |-> "off", post |-> posts + 1, before |-> r]
  <2>1. Post(c, call) /\ posts' = posts + 1
    BY <1>9 DEF ResetReads, Post
  <2>2. posts + 1 \in 1..MaxPosts
    <3>1. posts' = posts + 1
      BY <2>1
    <3>2. QED
      BY <1>1, <3>1
  <2>3. call \in Calls
    BY <2>2, NewCalls
  <2>4. call.post \in 1..MaxPosts /\ call.want \in {"on", "off"}
    BY <2>2
  <2> HIDE DEF call
  <2>5. QED
    BY <1>6, <2>1, <2>3, <2>4
<1>10. ASSUME NEW c \in Clients, ResetAgain(c) PROVE KindInv'
  <2>1. [pc |-> "reading", snap |-> current] \in Calls
    BY <1>1, <1>10, NewCalls DEF ResetAgain, Collecting
  <2>2. QED
    BY <1>3, <1>10, <2>1, NewCalls DEF ResetAgain, Return
<1>11. ASSUME NEW c \in Clients, PostAcked(c) PROVE KindInv'
  <2>1. /\ op' = [op EXCEPT ![c] = Idle] /\ faultEnabled' = op[c].want
        /\ applied' \subseteq applied /\ lastControl' = "acknowledged"
        /\ UNCHANGED <<wire, delayed, restarts, setBy>>
    BY <1>11 DEF PostAcked, Return
  <2>2. op[c].want \in {"on", "off"} /\ op' \in [Clients -> Calls]
    BY <1>2, <1>11, <2>1, CallShape, NewCalls DEF PostAcked, Posted, KindInv
  <2>3. snaps' \in Seq(Snapshot)
    <3> DEFINE new == [status |-> "collecting", elapsed |-> FALSE, before |-> op[c].before,
                       after |-> NoReading, summary |-> "none"]
    <3>1. CASE op[c].pc = "reset posted"
      <4>1. op[c].before \in Readings /\ snaps' = Append(snaps, new)
        BY <1>2, <1>11, <3>1, CallShape DEF PostAcked
      <4>2. new \in Snapshot
        BY <4>1 DEF Snapshot
      <4> HIDE DEF new
      <4>3. QED
        BY <4>1, <4>2, AppendProperties DEF KindInv
    <3>2. CASE op[c].pc # "reset posted"
      BY <1>11, <3>2 DEF PostAcked, KindInv
    <3>3. QED
      BY <3>1, <3>2
  <2>4. QED
    BY <2>1, <2>2, <2>3 DEF KindInv
<1>12. ASSUME NEW c \in Clients, PostFailed(c) PROVE KindInv'
  <2>1. /\ op' = [op EXCEPT ![c] = Idle] /\ applied' \subseteq applied
        /\ lastControl' = "failed"
        /\ UNCHANGED <<faultEnabled, snaps, wire, delayed, restarts, setBy>>
    BY <1>12 DEF PostFailed, Return
  <2>2. op' \in [Clients -> Calls]
    BY <2>1, NewCalls DEF KindInv
  <2>3. QED
    BY <2>1, <2>2 DEF KindInv
<1>13. ASSUME NEW c \in Clients, NEW r \in Readings, Conclude(c, r) PROVE KindInv'
  <2> DEFINE i == op[c].snap
             b == snaps[i].before
             verdict == [snaps[i] EXCEPT !.after = [window |-> i, values |-> r],
                           !.status = IF Sufficient(b, r) THEN "complete" ELSE "insufficient",
                           !.summary = Summary(b, r)]
  <2>1. /\ op' = [op EXCEPT ![c] = Idle] /\ snaps' = [snaps EXCEPT ![i] = verdict]
        /\ UNCHANGED <<faultEnabled, inventory, history>>
    BY <1>13 DEF Conclude, Return
  <2>2. i \in 1..Len(snaps) /\ i \in 1..MaxPosts
    <3>1. i \in 1..Len(snaps)
      BY <1>13 DEF Conclude, ControlInv, WindowInv
    <3>2. QED
      BY <1>1, <3>1
  <2>3. snaps \in [1..Len(snaps) -> Snapshot]
    BY LenProperties DEF KindInv
  <2>4. verdict \in Snapshot
    <3>1. snaps[i] \in Snapshot
      BY <2>2, <2>3
    <3>2. [window |-> i, values |-> r] \in [window : 1..MaxPosts, values : Readings]
      BY <2>2
    <3>3. Summary(b, r) \in {"incomparable", "no errors observed", "errors remain"}
      BY DEF Summary
    <3>4. QED
      BY <3>1, <3>2, <3>3 DEF Snapshot
  <2> HIDE DEF verdict
  <2>5. snaps' \in Seq(Snapshot)
    <3>1. snaps' \in [1..Len(snaps) -> Snapshot]
      BY <2>1, <2>3, <2>4
    <3>2. QED
      BY <1>1, <3>1, SeqDef
  <2>6. op' \in [Clients -> Calls]
    BY <2>1, NewCalls DEF KindInv
  <2>7. QED
    BY <2>1, <2>5, <2>6 DEF KindInv, inventory, history
<1>14. CASE WindowElapses
  <2>1. /\ snaps' = [snaps EXCEPT ![current] = [snaps[current] EXCEPT !.elapsed = TRUE]]
        /\ UNCHANGED <<op, faultEnabled, inventory, history>> /\ current # 0
    BY <1>14 DEF WindowElapses, Collecting
  <2>2. snaps \in [1..Len(snaps) -> Snapshot]
    BY LenProperties DEF KindInv
  <2>3. snaps[current] \in Snapshot
    BY <1>1, <2>1, <2>2
  <2>4. [snaps[current] EXCEPT !.elapsed = TRUE] \in Snapshot
    BY <2>3 DEF Snapshot
  <2>5. snaps' \in [1..Len(snaps) -> Snapshot]
    BY <2>1, <2>2, <2>4
  <2>6. snaps' \in Seq(Snapshot)
    BY <1>1, <2>5, SeqDef
  <2>7. QED
    BY <2>1, <2>6 DEF KindInv, inventory, history
<1>15. ASSUME NEW m \in wire, Apply(m) \/ Lose(m) PROVE KindInv'
  <2>1. m.post \in 1..MaxPosts /\ m.want \in {"on", "off"}
    BY DEF KindInv, Message
  <2>2. /\ wire' \subseteq wire /\ UNCHANGED <<op, snaps, faultEnabled, restarts, lastControl>>
        /\ setBy' \in {setBy, "call", "late"}
        /\ applied' \subseteq applied \cup {m.post} /\ delayed' \in {delayed, m.want}
    BY <1>15 DEF Apply, Lose, console, history
  <2>3. QED
    BY <2>1, <2>2 DEF KindInv, history
<1>16. CASE InventoryRestarts \/ ConsoleRestarts
  <2>1. /\ restarts < MaxRestarts /\ restarts' = restarts + 1
        /\ setBy' \in {setBy, "start"}
        /\ lastControl' \in {lastControl, "none"} /\ faultEnabled' \in {faultEnabled, "unknown"}
        /\ snaps' \in {snaps, <<>>} /\ applied' = {} /\ wire' \subseteq wire
        /\ delayed' \in {delayed, "off"}
        /\ op' = op \/ op' = [c \in Clients |-> Idle]
    BY <1>16 DEF InventoryRestarts, ConsoleRestarts, console
  <2>2. op' \in [Clients -> Calls] /\ snaps' \in Seq(Snapshot)
    <3>1. [c \in Clients |-> Idle] \in [Clients -> Calls] /\ <<>> \in Seq(Snapshot)
      BY NewCalls, EmptySeq
    <3>2. op \in [Clients -> Calls] /\ snaps \in Seq(Snapshot)
      BY DEF KindInv
    <3>3. QED
      BY <2>1, <3>1, <3>2
  <2>3. restarts' \in 0..MaxRestarts
    BY <2>1, Bounds DEF KindInv
  <2>4. QED
    BY <2>1, <2>2, <2>3 DEF KindInv
<1>17. CASE UNCHANGED vars
  BY <1>17 DEF KindInv, vars, console, inventory, history
<1>18. QED
  BY <1>4, <1>5, <1>7, <1>8, <1>9, <1>10, <1>11, <1>12, <1>13, <1>14, <1>15, <1>16, <1>17
  DEF Next, Step

(* Every variable stays in its range: a message and a comparison for every  *)
(* call that was given one, and nobody twice in the line                    *)
(* (console.py:59-68,193-248).                                              *)
THEOREM TypeCorrect == Spec => []TypeOK
<1>1. Init => KindInv
  <2>1. [c \in Clients |-> Idle] \in [Clients -> Calls] /\ <<>> \in Seq(Snapshot)
    BY NewCalls, EmptySeq
  <2>2. ASSUME Init PROVE op \in [Clients -> Calls] /\ snaps \in Seq(Snapshot)
    BY <2>1, <2>2, Zenon DEF Init
  <2>3. ASSUME Init PROVE restarts \in 0..MaxRestarts
    BY <2>3, Bounds DEF Init
  <2>4. QED
    BY <2>2, <2>3 DEF Init, KindInv
<1>2. ControlInv /\ SizeInv /\ KindInv /\ [Next]_vars => KindInv'
  BY KindKept
<1>3. ControlInv /\ LineInv /\ SizeInv /\ KindInv => TypeOK
  <2> SUFFICES ASSUME ControlInv, LineInv, SizeInv, KindInv PROVE TypeOK
    OBVIOUS
  <2>1. posts \in 0..MaxPosts
    BY Bounds DEF ControlInv, LockInv, SizeInv
  <2>2. lockq \in Seq(Clients) /\ current = Len(snaps) /\ IsInjective(lockq)
    BY DEF ControlInv, LockInv, WindowInv, LineInv
  <2>3. QED
    BY <2>1, <2>2 DEF TypeOK, KindInv, Message
<1>4. QED
  BY <1>1, <1>2, <1>3, ControlInvariant, LineNeverLeaks, SizeInvariant, PTL DEF Spec
=============================================================================
