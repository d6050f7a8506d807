-------------------------- MODULE FileAuditSinkProofs --------------------------
(***************************************************************************)
(* What the audit file keeps, step by step, for any number of runs,        *)
(* events and faults: the lemmas KernelProcessProofs composes.             *)
(*                                                                         *)
(* RecordsAreAPrefix is not inductive: that the next line of a run follows *)
(* its last one depends on the state of its stream.  SinkInv says what     *)
(* each state of the stream means for the fragments of its run.            *)
(***************************************************************************)
EXTENDS FileAuditSink, SequenceTheorems, TLAPS

(* A good stream has written every event, the last one too. *)
GoodInv(r) ==
  /\ \A i \in DOMAIN file : file[i].run = r => file[i].whole
  /\ Len(reported[r]) > 0 => \E i \in DOMAIN file : file[i].run = r /\ file[i].n = Len(reported[r])

(* A failed one keeps one event, which is in the file in part, or not at   *)
(* all, behind those before it.                                            *)
FailedInv(r) ==
  /\ buffered[r] \in DOMAIN reported[r]
  /\ \A i \in DOMAIN file :
       file[i].run = r => \/ file[i].n = buffered[r]
                          \/ file[i].n < buffered[r] /\ file[i].whole
  /\ buffered[r] > 1 => \E i \in DOMAIN file : file[i].run = r /\ file[i].n = buffered[r] - 1

SinkInv ==
  /\ RecordsAreAPrefix
  /\ \A r \in Runs : /\ stream[r] = "good" => GoodInv(r)
                     /\ stream[r] = "failed" => FailedInv(r)
                     /\ stream[r] # "failed" => buffered[r] = 0

LEMMA SinkInitInv ==
  ASSUME NEW Events, SinkInit
  PROVE  SinkTypeOK(Events) /\ SinkInv
<1>1. SinkTypeOK(Events)
  BY DEF SinkInit, SinkTypeOK
<1>2. SinkInv
  BY DEF SinkInit, SinkInv, RecordsAreAPrefix
<1> QED
  BY <1>1, <1>2

LEMMA SinkUnchanged ==
  ASSUME NEW Events, SinkTypeOK(Events), SinkInv, UNCHANGED sinkVars
  PROVE  SinkTypeOK(Events)' /\ SinkInv'
<1>1. /\ file' = file /\ stream' = stream /\ buffered' = buffered /\ reported' = reported
      /\ faults' = faults
  BY DEF sinkVars
<1>2. SinkTypeOK(Events)'
  BY <1>1 DEF SinkTypeOK
<1>3. RecordsAreAPrefix'
  BY <1>1 DEF SinkInv, RecordsAreAPrefix
<1>4. ASSUME NEW r \in Runs
      PROVE  (GoodInv(r) => GoodInv(r)') /\ (FailedInv(r) => FailedInv(r)')
  BY <1>1 DEF GoodInv, FailedInv
<1> QED
  BY <1>1, <1>2, <1>3, <1>4 DEF SinkInv

LEMMA AppendFacts ==
  ASSUME NEW Events, SinkTypeOK(Events), NEW f \in Fragments(Events), file' = Append(file, f)
  PROVE  /\ file' \in Seq(Fragments(Events))
         /\ Len(file) \in Nat /\ DOMAIN file = 1..Len(file)
         /\ Len(file') = Len(file) + 1 /\ DOMAIN file' = 1..(Len(file) + 1)
         /\ \A i \in DOMAIN file : i \in DOMAIN file' /\ file'[i] = file[i]
         /\ file'[Len(file) + 1] = f
         /\ \A i \in DOMAIN file' : i \in DOMAIN file \/ i = Len(file) + 1
<1>1. file \in Seq(Fragments(Events))
  BY DEF SinkTypeOK
<1> QED
  BY <1>1

LEMMA FragmentFacts ==
  ASSUME NEW Events, SinkTypeOK(Events)
  PROVE  /\ Len(file) \in Nat /\ DOMAIN file = 1..Len(file)
         /\ \A i \in DOMAIN file : file[i] \in Fragments(Events)
<1>1. file \in Seq(Fragments(Events))
  BY DEF SinkTypeOK
<1> QED
  BY <1>1

(* A run that has not begun opens the file. *)
LEMMA OpenInv ==
  ASSUME NEW Events, SinkTypeOK(Events), SinkInv,
         NEW r \in Runs, reported[r] = <<>>, stream[r] = "closed", Open(r)
  PROVE  SinkTypeOK(Events)' /\ SinkInv'
<1>1. SinkTypeOK(Events)'
  <2>1. stream' \in [Runs -> {"closed", "good", "failed"}]
    BY DEF Open, SinkTypeOK
  <2>2. faults' \in Nat
    BY DEF Open, SinkTypeOK, Fault
  <2> QED
    BY <2>1, <2>2 DEF Open, SinkTypeOK
<1>2. \A i \in DOMAIN file : file[i].run # r
  BY DEF SinkInv, RecordsAreAPrefix
<1>3. RecordsAreAPrefix'
  <2>1. \A i \in DOMAIN file : file[i].run \in Runs \ {r}
    BY <1>2, FragmentFacts DEF Fragments
  <2>2. \A i \in DOMAIN file : stream'[file[i].run] = stream[file[i].run]
    BY <2>1 DEF Open, SinkTypeOK
  <2> QED
    BY <2>2 DEF Open, SinkInv, RecordsAreAPrefix
<1>4. ASSUME NEW q \in Runs
      PROVE  /\ stream'[q] = "good" => GoodInv(q)'
             /\ stream'[q] = "failed" => FailedInv(q)'
             /\ stream'[q] # "failed" => buffered'[q] = 0
  <2>1. CASE q = r
    <3>1. stream'[r] # "failed"
      BY DEF Open, SinkTypeOK
    <3> QED
      BY <1>2, <2>1, <3>1 DEF Open, SinkInv, GoodInv
  <2>2. CASE q # r
    <3>1. stream'[q] = stream[q]
      BY <2>2 DEF Open, SinkTypeOK
    <3> QED
      BY <3>1 DEF Open, SinkInv, GoodInv, FailedInv
  <2> QED
    BY <2>1, <2>2
<1> QED
  BY <1>1, <1>3, <1>4 DEF SinkInv

(* The next event of a run is not in the file. *)
LEMMA NextIsNew ==
  ASSUME NEW Events, SinkTypeOK(Events), SinkInv, NEW r \in Runs,
         NEW i \in DOMAIN file, file[i].run = r
  PROVE  file[i].n < Len(reported[r]) + 1
<1>1. file[i].n \in DOMAIN reported[r]
  BY DEF SinkInv, RecordsAreAPrefix
<1>2. reported[r] \in Seq(Events)
  BY DEF SinkTypeOK
<1> QED
  BY <1>1, <1>2

(* What is left as it was when an event is reported. *)
LEMMA ReportedFacts ==
  ASSUME NEW Events, SinkTypeOK(Events), NEW r \in Runs, NEW event \in Events,
         reported' = [reported EXCEPT ![r] = Append(@, event)]
  PROVE  /\ reported' \in [Runs -> Seq(Events)]
         /\ \A q \in Runs \ {r} : reported'[q] = reported[q]
         /\ Len(reported'[r]) = Len(reported[r]) + 1
         /\ \A n \in DOMAIN reported[r] : n \in DOMAIN reported'[r] /\ reported'[r][n] = reported[r][n]
         /\ reported'[r][Len(reported[r]) + 1] = event
         /\ Len(reported[r]) + 1 \in DOMAIN reported'[r]
         /\ Len(reported[r]) \in Nat
<1>1. reported[r] \in Seq(Events) /\ reported'[r] = Append(reported[r], event)
  BY DEF SinkTypeOK
<1> QED
  BY <1>1 DEF SinkTypeOK

(* A line that joins the file behind the others of its run. *)
LEMMA AppendedInv ==
  ASSUME NEW Events, SinkTypeOK(Events), SinkInv, NEW r \in Runs, NEW event \in Events,
         stream[r] = "good",
         reported' = [reported EXCEPT ![r] = Append(@, event)],
         \A q \in Runs \ {r} : stream'[q] = stream[q],
         NEW w \in BOOLEAN,
         file' = Append(file, Fragment(r, Len(reported[r]) + 1, event, w))
  PROVE  RecordsAreAPrefix'
<1> DEFINE f == Fragment(r, Len(reported[r]) + 1, event, w)
           k == Len(file) + 1
<1>1. /\ f = [run |-> r, n |-> Len(reported[r]) + 1, event |-> event, whole |-> w]
      /\ f.run = r /\ f.n = Len(reported[r]) + 1 /\ f.event = event /\ f.whole = w
  BY DEF Fragment
<1>2. /\ Len(file) \in Nat /\ DOMAIN file = 1..Len(file)
      /\ Len(file') = k /\ DOMAIN file' = 1..k
      /\ \A i \in DOMAIN file : file'[i] = file[i]
      /\ file'[k] = f
      /\ \A i \in DOMAIN file : file[i] \in Fragments(Events)
  <2>1. file \in Seq(Fragments(Events))
    BY DEF SinkTypeOK
  <2> QED
    BY <2>1
<1>3. GoodInv(r)
  BY DEF SinkInv
<1>4. \A i \in DOMAIN file : file[i].run = r => file[i].n < f.n /\ file[i].whole
  BY <1>1, <1>3, NextIsNew DEF GoodInv
<1>5. ASSUME NEW i \in DOMAIN file
      PROVE  /\ file[i].n \in DOMAIN reported'[file[i].run]
             /\ file[i].event = reported'[file[i].run][file[i].n]
  <2>1. file[i].run \in Runs
    BY <1>2 DEF Fragments
  <2>2. file[i].n \in DOMAIN reported[file[i].run] /\ file[i].event = reported[file[i].run][file[i].n]
    BY DEF SinkInv, RecordsAreAPrefix
  <2>3. CASE file[i].run = r
    BY <2>2, <2>3, ReportedFacts
  <2>4. CASE file[i].run # r
    BY <2>1, <2>2, <2>4, ReportedFacts
  <2> QED
    BY <2>3, <2>4
<1>6. ASSUME NEW i \in DOMAIN file'
      PROVE  /\ file'[i].n \in DOMAIN reported'[file'[i].run]
             /\ file'[i].event = reported'[file'[i].run][file'[i].n]
  <2>1. CASE i = k
    <3>1. file'[i] = f
      BY <1>2, <2>1
    <3>2. /\ Len(reported[r]) + 1 \in DOMAIN reported'[r]
          /\ reported'[r][Len(reported[r]) + 1] = event
      BY ReportedFacts
    <3> HIDE DEF f
    <3> QED
      BY <1>1, <3>1, <3>2
  <2>2. CASE i # k
    <3>1. i \in DOMAIN file /\ file'[i] = file[i]
      BY <1>2, <2>2
    <3> QED
      BY <1>5, <3>1
  <2> QED
    BY <2>1, <2>2
<1>7. ASSUME NEW i \in DOMAIN file', file'[i].n > 1
      PROVE  \E j \in 1..(i - 1) : file'[j].run = file'[i].run /\ file'[j].n = file'[i].n - 1
  <2>1. CASE i = k
    <3>1. Len(reported[r]) \in Nat /\ Len(reported[r]) > 0
      BY <1>1, <1>2, <1>7, <2>1, ReportedFacts
    <3>2. PICK j \in DOMAIN file : file[j].run = r /\ file[j].n = Len(reported[r])
      BY <1>3, <3>1 DEF GoodInv
    <3> QED
      BY <1>1, <1>2, <2>1, <3>1, <3>2
  <2>2. CASE i # k
    <3>1. PICK j \in 1..(i - 1) : file[j].run = file[i].run /\ file[j].n = file[i].n - 1
      BY <1>2, <1>7, <2>2 DEF SinkInv, RecordsAreAPrefix
    <3> QED
      BY <1>2, <2>2, <3>1
  <2> QED
    BY <2>1, <2>2
<1>8. ASSUME NEW i \in DOMAIN file', NEW j \in (i + 1)..Len(file'), file'[j].run = file'[i].run
      PROVE  \/ file'[j].n = file'[i].n
             \/ file'[i].whole /\ file'[j].n > file'[i].n
  <2>1. i \in DOMAIN file
    BY <1>2, <1>8
  <2>2. CASE j = k
    BY <1>1, <1>2, <1>4, <1>8, <2>1, <2>2 DEF Fragments
  <2>3. CASE j # k
    BY <1>2, <1>8, <2>1, <2>3 DEF SinkInv, RecordsAreAPrefix
  <2> QED
    BY <2>2, <2>3
<1>9. ASSUME NEW i \in DOMAIN file', NEW j \in 1..(i - 1),
             file'[j].run = file'[i].run, file'[j].n = file'[i].n
      PROVE  stream'[file'[i].run] = "closed"
  <2>1. j \in DOMAIN file
    BY <1>2, <1>9
  <2>2. i # k
    BY <1>1, <1>2, <1>4, <1>9, <2>1 DEF Fragments
  <2>3. i \in DOMAIN file
    BY <1>2, <2>2
  <2>4. stream[file[i].run] = "closed"
    BY <1>2, <1>9, <2>1, <2>3 DEF SinkInv, RecordsAreAPrefix
  <2>5. file[i].run \in Runs \ {r}
    BY <1>2, <2>3, <2>4 DEF Fragments
  <2> QED
    BY <1>2, <2>3, <2>4, <2>5
<1> QED
  BY <1>6, <1>7, <1>8, <1>9 DEF RecordsAreAPrefix

(* An event is reported whose line is not tried: the stream is not good. *)
LEMMA DroppedInv ==
  ASSUME NEW Events, SinkTypeOK(Events), SinkInv, NEW r \in Runs, NEW event \in Events,
         ~Writable(r), UNCHANGED <<file, stream, buffered>>,
         reported' = [reported EXCEPT ![r] = Append(@, event)]
  PROVE  SinkInv'
<1>1. ASSUME NEW i \in DOMAIN file
      PROVE  /\ file[i].n \in DOMAIN reported'[file[i].run]
             /\ file[i].event = reported'[file[i].run][file[i].n]
  <2>1. file[i].run \in Runs
    BY FragmentFacts DEF Fragments
  <2>2. file[i].n \in DOMAIN reported[file[i].run] /\ file[i].event = reported[file[i].run][file[i].n]
    BY DEF SinkInv, RecordsAreAPrefix
  <2>3. CASE file[i].run = r
    BY <2>2, <2>3, ReportedFacts
  <2>4. CASE file[i].run # r
    BY <2>1, <2>2, <2>4, ReportedFacts
  <2> QED
    BY <2>3, <2>4
<1>2. RecordsAreAPrefix'
  BY <1>1 DEF SinkInv, RecordsAreAPrefix
<1>3. ASSUME NEW q \in Runs
      PROVE  /\ stream[q] = "good" => GoodInv(q)'
             /\ stream[q] = "failed" => FailedInv(q)'
  <2>1. CASE q = r
    <3>1. \A n \in DOMAIN reported[r] : n \in DOMAIN reported'[r]
      BY ReportedFacts
    <3>2. stream[r] = "failed" => FailedInv(r)
      BY DEF SinkInv
    <3>3. ASSUME FailedInv(r) PROVE FailedInv(r)'
      BY <3>1, <3>3 DEF FailedInv
    <3>4. stream[r] # "good" /\ (stream[r] = "failed" => FailedInv(r)')
      BY <3>2, <3>3 DEF Writable
    <3> QED
      BY <2>1, <3>4
  <2>2. CASE q # r
    <3>1. reported'[q] = reported[q]
      BY <2>2, ReportedFacts
    <3>2. ASSUME GoodInv(q) PROVE GoodInv(q)'
      BY <3>1, <3>2 DEF GoodInv
    <3>3. ASSUME FailedInv(q) PROVE FailedInv(q)'
      BY <3>1, <3>3 DEF FailedInv
    <3> QED
      BY <3>2, <3>3 DEF SinkInv
  <2> QED
    BY <2>1, <2>2
<1> QED
  BY <1>2, <1>3 DEF SinkInv

(* The other runs do not notice a line of this one. *)
LEMMA OthersUnmoved ==
  ASSUME NEW Events, SinkTypeOK(Events), SinkInv, NEW r \in Runs, NEW q \in Runs \ {r},
         reported'[q] = reported[q], stream'[q] = stream[q], buffered'[q] = buffered[q],
         \/ file' = file
         \/ \E f \in Fragments(Events) : f.run = r /\ file' = Append(file, f)
  PROVE  /\ stream'[q] = "good" => GoodInv(q)'
         /\ stream'[q] = "failed" => FailedInv(q)'
         /\ stream'[q] # "failed" => buffered'[q] = 0
<1>1. CASE file' = file
  BY <1>1 DEF SinkInv, GoodInv, FailedInv
<1>2. ASSUME NEW f \in Fragments(Events), f.run = r, file' = Append(file, f)
      PROVE  /\ stream'[q] = "good" => GoodInv(q)'
             /\ stream'[q] = "failed" => FailedInv(q)'
             /\ stream'[q] # "failed" => buffered'[q] = 0
  <2>1. /\ DOMAIN file' = 1..(Len(file) + 1) /\ DOMAIN file = 1..Len(file) /\ Len(file) \in Nat
        /\ \A i \in DOMAIN file : i \in DOMAIN file' /\ file'[i] = file[i]
        /\ file'[Len(file) + 1] = f
        /\ \A i \in DOMAIN file' : i \in DOMAIN file \/ i = Len(file) + 1
    BY <1>2, AppendFacts
  <2>2. \A i \in DOMAIN file' : file'[i].run = q => i \in DOMAIN file /\ file'[i] = file[i]
    BY <1>2, <2>1
  <2>3. stream[q] = "good" => GoodInv(q)'
    BY <2>1, <2>2 DEF SinkInv, GoodInv
  <2>4. stream[q] = "failed" => FailedInv(q)'
    BY <2>1, <2>2 DEF SinkInv, FailedInv
  <2> QED
    BY <2>3, <2>4 DEF SinkInv
<1> QED
  BY <1>1, <1>2

(* A run logs an event. *)
LEMMA LogInv ==
  ASSUME NEW Events, SinkTypeOK(Events), SinkInv, NEW r \in Runs, NEW event \in Events,
         Log(r, event)
  PROVE  SinkTypeOK(Events)' /\ SinkInv'
<1> DEFINE n == Len(reported[r]) + 1
<1>1. /\ reported' = [reported EXCEPT ![r] = Append(@, event)]
      /\ reported' \in [Runs -> Seq(Events)]
      /\ \A q \in Runs \ {r} : reported'[q] = reported[q]
      /\ Len(reported'[r]) = n
      /\ n \in DOMAIN reported'[r]
      /\ Len(reported[r]) \in Nat
  <2>1. reported' = [reported EXCEPT ![r] = Append(@, event)]
    BY DEF Log
  <2> QED
    BY <2>1, ReportedFacts
<1>2. ASSUME NEW w \in BOOLEAN
      PROVE  /\ Fragment(r, n, event, w) \in Fragments(Events)
             /\ Fragment(r, n, event, w).run = r /\ Fragment(r, n, event, w).n = n
             /\ Fragment(r, n, event, w).whole = w
  BY <1>1 DEF Fragment, Fragments
<1>3. \A w \in BOOLEAN : /\ Fragment(r, n, event, w) \in Fragments(Events)
                        /\ Fragment(r, n, event, w).run = r
                        /\ Fragment(r, n, event, w).n = n
                        /\ Fragment(r, n, event, w).whole = w
  BY <1>2
<1>4. \/ /\ Writable(r) /\ file' = Append(file, Fragment(r, n, event, TRUE))
         /\ UNCHANGED <<stream, buffered, faults>>
      \/ /\ Writable(r) /\ Fault /\ file' \in {file, Append(file, Fragment(r, n, event, FALSE))}
         /\ stream' = [stream EXCEPT ![r] = "failed"]
         /\ buffered' = [buffered EXCEPT ![r] = n]
      \/ ~Writable(r) /\ UNCHANGED <<file, stream, buffered, faults>>
  BY DEF Log, AppendJsonLine, CutShort
<1>5. SinkTypeOK(Events)'
  <2>1. n \in Nat
    BY <1>1
  <2>2. file' \in Seq(Fragments(Events))
    BY <1>3, <1>4, AppendFacts DEF SinkTypeOK
  <2> HIDE DEF n
  <2>3. stream' \in [Runs -> {"closed", "good", "failed"}] /\ buffered' \in [Runs -> Nat]
    BY <1>4, <2>1 DEF SinkTypeOK
  <2>4. faults' \in Nat
    <3>1. faults' \in {faults, faults + 1}
      BY <1>4 DEF Fault
    <3> QED
      BY <3>1 DEF SinkTypeOK
  <2> QED
    BY <1>1, <2>2, <2>3, <2>4 DEF SinkTypeOK
<1>6. \A q \in Runs \ {r} : /\ reported'[q] = reported[q]
                            /\ stream'[q] = stream[q] /\ buffered'[q] = buffered[q]
  BY <1>1, <1>4 DEF SinkTypeOK
<1>7. CASE ~Writable(r) /\ UNCHANGED <<file, stream, buffered, faults>>
  BY <1>1, <1>5, <1>7, DroppedInv
<1>8. ASSUME stream[r] = "good", NEW w \in BOOLEAN, file' = Append(file, Fragment(r, n, event, w))
      PROVE  RecordsAreAPrefix'
  BY <1>1, <1>6, <1>8, AppendedInv
<1>9. ASSUME stream[r] = "good", file' = file, stream' = [stream EXCEPT ![r] = "failed"]
      PROVE  RecordsAreAPrefix'
  <2>1. ASSUME NEW i \in DOMAIN file
        PROVE  /\ file[i].n \in DOMAIN reported'[file[i].run]
               /\ file[i].event = reported'[file[i].run][file[i].n]
               /\ stream[file[i].run] = "closed" => stream'[file[i].run] = "closed"
    <3>1. file[i].run \in Runs
      BY FragmentFacts DEF Fragments
    <3>2. file[i].n \in DOMAIN reported[file[i].run] /\ file[i].event = reported[file[i].run][file[i].n]
      BY DEF SinkInv, RecordsAreAPrefix
    <3>3. CASE file[i].run = r
      BY <1>1, <1>9, <3>2, <3>3, ReportedFacts
    <3>4. CASE file[i].run # r
      BY <1>1, <1>6, <3>1, <3>2, <3>4, ReportedFacts
    <3> QED
      BY <3>3, <3>4
  <2> QED
    BY <1>9, <2>1 DEF SinkInv, RecordsAreAPrefix
<1>10. CASE Writable(r) /\ file' = Append(file, Fragment(r, n, event, TRUE)) /\ UNCHANGED <<stream, buffered, faults>>
  <2>1. RecordsAreAPrefix'
    BY <1>8, <1>10 DEF Writable
  <2>2. /\ DOMAIN file' = 1..(Len(file) + 1) /\ DOMAIN file = 1..Len(file) /\ Len(file) \in Nat
        /\ \A i \in DOMAIN file : file'[i] = file[i]
        /\ file'[Len(file) + 1] = Fragment(r, n, event, TRUE)
        /\ \A i \in DOMAIN file' : i \in DOMAIN file \/ i = Len(file) + 1
    BY <1>3, <1>10, AppendFacts
  <2>3. GoodInv(r)'
    <3>0. /\ Fragment(r, n, event, TRUE).run = r /\ Fragment(r, n, event, TRUE).n = n
          /\ Fragment(r, n, event, TRUE).whole = TRUE
      BY <1>2
    <3>1. \A i \in DOMAIN file' : file'[i].run = r => file'[i].whole
      <4>1. GoodInv(r)
        BY <1>10 DEF SinkInv, Writable
      <4>2. ASSUME NEW i \in DOMAIN file', file'[i].run = r PROVE file'[i].whole
        <5>1. CASE i \in DOMAIN file
          BY <2>2, <4>1, <4>2, <5>1 DEF GoodInv
        <5>2. CASE i = Len(file) + 1
          BY <2>2, <3>0, <5>2
        <5> QED
          BY <2>2, <5>1, <5>2
      <4> QED
        BY <4>2
    <3>2. Len(reported'[r]) = n
      BY <1>1
    <3>3. Len(file) + 1 \in DOMAIN file'
      BY <2>2
    <3> QED
      BY <2>2, <3>0, <3>1, <3>2, <3>3 DEF GoodInv
  <2>4. ASSUME NEW q \in Runs
        PROVE  /\ stream'[q] = "good" => GoodInv(q)'
               /\ stream'[q] = "failed" => FailedInv(q)'
               /\ stream'[q] # "failed" => buffered'[q] = 0
    <3>1. CASE q = r
      BY <1>10, <2>3, <3>1 DEF Writable, SinkInv
    <3>2. CASE q # r
      <4>1. Fragment(r, n, event, TRUE) \in Fragments(Events) /\ Fragment(r, n, event, TRUE).run = r
        BY <1>2
      <4>2. q \in Runs \ {r}
        BY <3>2
      <4>3. \/ file' = file
            \/ \E f \in Fragments(Events) : f.run = r /\ file' = Append(file, f)
        BY <1>10, <4>1
      <4> QED
        BY <1>6, <4>2, <4>3, OthersUnmoved
    <3> QED
      BY <3>1, <3>2
  <2> QED
    BY <1>5, <2>1, <2>4 DEF SinkInv
<1>11. CASE /\ Writable(r) /\ file' \in {file, Append(file, Fragment(r, n, event, FALSE))}
            /\ stream' = [stream EXCEPT ![r] = "failed"]
            /\ buffered' = [buffered EXCEPT ![r] = n]
  <2>1. RecordsAreAPrefix'
    BY <1>8, <1>9, <1>11 DEF Writable
  <2>2. stream'[r] = "failed" /\ buffered'[r] = n
    BY <1>11 DEF SinkTypeOK
  <2>3. GoodInv(r) /\ \A i \in DOMAIN file : file[i].run = r => file[i].n < n
    BY <1>11, NextIsNew DEF Writable, SinkInv
  <2>4. FailedInv(r)'
    <3>1. buffered'[r] \in DOMAIN reported'[r] /\ Len(reported[r]) \in Nat
      BY <1>1, <2>2
    <3>2. CASE file' = file
      BY <2>2, <2>3, <3>1, <3>2 DEF GoodInv, FailedInv
    <3>3. CASE file' = Append(file, Fragment(r, n, event, FALSE))
      <4>1. /\ DOMAIN file' = 1..(Len(file) + 1) /\ DOMAIN file = 1..Len(file) /\ Len(file) \in Nat
            /\ \A i \in DOMAIN file : i \in DOMAIN file' /\ file'[i] = file[i]
            /\ file'[Len(file) + 1] = Fragment(r, n, event, FALSE)
            /\ \A i \in DOMAIN file' : i \in DOMAIN file \/ i = Len(file) + 1
        BY <1>3, <3>3, AppendFacts
      <4>0. /\ Fragment(r, n, event, FALSE).run = r /\ Fragment(r, n, event, FALSE).n = n
            /\ Fragment(r, n, event, FALSE).whole = FALSE
        BY <1>2
      <4>2. ASSUME NEW i \in DOMAIN file', file'[i].run = r
            PROVE  \/ file'[i].n = buffered'[r]
                   \/ file'[i].n < buffered'[r] /\ file'[i].whole
        <5>1. CASE i \in DOMAIN file
          BY <2>2, <2>3, <4>1, <4>2, <5>1 DEF GoodInv
        <5>2. CASE i = Len(file) + 1
          BY <2>2, <4>0, <4>1, <5>2
        <5> QED
          BY <4>1, <5>1, <5>2
      <4>3. buffered'[r] > 1 =>
              \E i \in DOMAIN file' : file'[i].run = r /\ file'[i].n = buffered'[r] - 1
        BY <2>2, <2>3, <3>1, <4>1 DEF GoodInv
      <4> QED
        BY <3>1, <4>2, <4>3 DEF FailedInv
    <3> QED
      BY <1>11, <3>2, <3>3
  <2>5. ASSUME NEW q \in Runs
        PROVE  /\ stream'[q] = "good" => GoodInv(q)'
               /\ stream'[q] = "failed" => FailedInv(q)'
               /\ stream'[q] # "failed" => buffered'[q] = 0
    <3>1. CASE q = r
      BY <2>2, <2>4, <3>1
    <3>2. CASE q # r
      <4>1. Fragment(r, n, event, FALSE) \in Fragments(Events) /\ Fragment(r, n, event, FALSE).run = r
        BY <1>2
      <4>2. q \in Runs \ {r}
        BY <3>2
      <4>3. \/ file' = file
            \/ \E f \in Fragments(Events) : f.run = r /\ file' = Append(file, f)
        BY <1>11, <4>1
      <4> QED
        BY <1>6, <4>2, <4>3, OthersUnmoved
    <3> QED
      BY <3>1, <3>2
  <2> QED
    BY <1>5, <2>1, <2>5 DEF SinkInv
<1> QED
  BY <1>4, <1>7, <1>10, <1>11

(* A process ends without its destructors. *)
LEMMA VanishInv ==
  ASSUME NEW Events, SinkTypeOK(Events), SinkInv, NEW r \in Runs,
         Vanish(r), UNCHANGED file, Fault
  PROVE  SinkTypeOK(Events)' /\ SinkInv'
<1>1. SinkTypeOK(Events)'
  <2>1. faults' \in Nat
    BY DEF SinkTypeOK, Fault
  <2> QED
    BY <2>1 DEF SinkTypeOK, Vanish
<1>2. \A q \in Runs : IF q = r THEN stream'[q] = "closed" /\ buffered'[q] = 0
                      ELSE stream'[q] = stream[q] /\ buffered'[q] = buffered[q]
  BY DEF SinkTypeOK, Vanish
<1>3. RecordsAreAPrefix'
  <2>1. \A i \in DOMAIN file :
          stream[file[i].run] = "closed" => stream'[file[i].run] = "closed"
    BY <1>2, FragmentFacts DEF Fragments
  <2> QED
    BY <2>1 DEF SinkInv, RecordsAreAPrefix, Vanish
<1>4. ASSUME NEW q \in Runs
      PROVE  /\ stream'[q] = "good" => GoodInv(q)'
             /\ stream'[q] = "failed" => FailedInv(q)'
             /\ stream'[q] # "failed" => buffered'[q] = 0
  <2>1. CASE q = r
    BY <1>2, <2>1
  <2>2. CASE q # r
    <3>1. reported' = reported /\ file' = file
      BY DEF Vanish
    <3>2. ASSUME GoodInv(q) PROVE GoodInv(q)'
      BY <3>1, <3>2 DEF GoodInv
    <3>3. ASSUME FailedInv(q) PROVE FailedInv(q)'
      BY <1>2, <2>2, <3>1, <3>3 DEF FailedInv
    <3> QED
      BY <1>2, <2>2, <3>2, <3>3 DEF SinkInv
  <2> QED
    BY <2>1, <2>2
<1> QED
  BY <1>1, <1>3, <1>4 DEF SinkInv

(* The destructor tries the line in the buffer once again: it is the last  *)
(* of its run, whatever part of it is in the file.                         *)
LEMMA CloseInv ==
  ASSUME NEW Events, SinkTypeOK(Events), SinkInv, NEW r \in Runs, Close(r)
  PROVE  SinkTypeOK(Events)' /\ SinkInv'
<1> DEFINE n == buffered[r]
           f(w) == Fragment(r, n, reported[r][n], w)
<1>1. /\ stream' = [stream EXCEPT ![r] = "closed"]
      /\ buffered' = [buffered EXCEPT ![r] = 0]
      /\ UNCHANGED <<reported, faults>>
  BY DEF Close, Vanish
<1>2. \A q \in Runs : IF q = r THEN stream'[q] = "closed" /\ buffered'[q] = 0
                      ELSE stream'[q] = stream[q] /\ buffered'[q] = buffered[q]
  BY <1>1 DEF SinkTypeOK
<1>3. \/ file' = file
      \/ /\ n # 0
         /\ \E w \in BOOLEAN : file' = Append(file, Fragment(r, n, reported[r][n], w))
  BY DEF Close, CutShort
<1>4. ASSUME n # 0
      PROVE  FailedInv(r)
  BY <1>4 DEF SinkInv
<1>5. ASSUME n # 0, NEW w \in BOOLEAN
      PROVE  /\ Fragment(r, n, reported[r][n], w) \in Fragments(Events)
             /\ Fragment(r, n, reported[r][n], w).run = r
             /\ Fragment(r, n, reported[r][n], w).n = n
             /\ Fragment(r, n, reported[r][n], w).event = reported[r][n]
             /\ Fragment(r, n, reported[r][n], w).whole = w
  <2>1. n \in DOMAIN reported[r] /\ reported[r] \in Seq(Events) /\ n \in Nat
    BY <1>4, <1>5 DEF FailedInv, SinkTypeOK
  <2>2. reported[r][n] \in Events
    BY <2>1
  <2> QED
    BY <2>1, <2>2 DEF Fragment, Fragments
<1>6. file' = file \/ \E g \in Fragments(Events) : g.run = r /\ file' = Append(file, g)
  BY <1>3, <1>5
<1>7. SinkTypeOK(Events)'
  <2>1. file' \in Seq(Fragments(Events))
    BY <1>6, AppendFacts DEF SinkTypeOK
  <2> QED
    BY <1>1, <2>1 DEF SinkTypeOK
<1>8. ASSUME NEW i \in DOMAIN file
      PROVE  stream[file[i].run] = "closed" => stream'[file[i].run] = "closed"
  BY <1>2, FragmentFacts DEF Fragments
<1>9. RecordsAreAPrefix'
  <2>1. CASE file' = file
    BY <1>1, <1>8, <2>1 DEF SinkInv, RecordsAreAPrefix
  <2>2. ASSUME n # 0, NEW w \in BOOLEAN, NEW g, g = Fragment(r, n, reported[r][n], w),
               file' = Append(file, g)
        PROVE  RecordsAreAPrefix'
    <3>1. g \in Fragments(Events) /\ g.run = r /\ g.n = n /\ g.event = reported[r][n]
      BY <1>5, <2>2
    <3>2. /\ DOMAIN file' = 1..(Len(file) + 1) /\ DOMAIN file = 1..Len(file) /\ Len(file) \in Nat
          /\ Len(file') = Len(file) + 1
          /\ \A i \in DOMAIN file : i \in DOMAIN file' /\ file'[i] = file[i]
          /\ file'[Len(file) + 1] = g
          /\ \A i \in DOMAIN file' : i \in DOMAIN file \/ i = Len(file) + 1
      BY <2>2, <3>1, AppendFacts
    <3>3. FailedInv(r) /\ stream'[r] = "closed"
      BY <1>2, <1>4, <2>2
    <3>4. ASSUME NEW i \in DOMAIN file'
          PROVE  /\ file'[i].n \in DOMAIN reported[file'[i].run]
                 /\ file'[i].event = reported[file'[i].run][file'[i].n]
      <4>1. CASE i \in DOMAIN file
        BY <3>2, <4>1 DEF SinkInv, RecordsAreAPrefix
      <4>2. CASE i = Len(file) + 1
        BY <3>1, <3>2, <3>3, <4>2 DEF FailedInv
      <4> QED
        BY <3>2, <4>1, <4>2
    <3>5. ASSUME NEW i \in DOMAIN file', file'[i].n > 1
          PROVE  \E j \in 1..(i - 1) : file'[j].run = file'[i].run /\ file'[j].n = file'[i].n - 1
      <4>1. CASE i \in DOMAIN file
        <5>1. PICK j \in 1..(i - 1) : file[j].run = file[i].run /\ file[j].n = file[i].n - 1
          BY <3>2, <3>5, <4>1 DEF SinkInv, RecordsAreAPrefix
        <5> QED
          BY <3>2, <4>1, <5>1
      <4>2. CASE i = Len(file) + 1
        <5>1. PICK j \in DOMAIN file : file[j].run = r /\ file[j].n = n - 1
          BY <3>1, <3>2, <3>3, <3>5, <4>2 DEF FailedInv
        <5> QED
          BY <3>1, <3>2, <4>2, <5>1
      <4> QED
        BY <3>2, <4>1, <4>2
    <3>6. ASSUME NEW i \in DOMAIN file', NEW j \in (i + 1)..Len(file'), file'[j].run = file'[i].run
          PROVE  \/ file'[j].n = file'[i].n
                 \/ file'[i].whole /\ file'[j].n > file'[i].n
      <4>1. i \in DOMAIN file
        BY <3>2, <3>6
      <4>2. CASE j \in DOMAIN file
        BY <3>2, <3>6, <4>1, <4>2 DEF SinkInv, RecordsAreAPrefix
      <4>3. CASE j = Len(file) + 1
        <5>1. file[i].run = r /\ file[i].n \in Nat /\ n \in Nat
          BY <3>1, <3>2, <3>6, <4>1, <4>3, FragmentFacts DEF Fragments
        <5>2. \/ file[i].n = n
              \/ file[i].n < n /\ file[i].whole
          BY <3>3, <4>1, <5>1 DEF FailedInv
        <5> QED
          BY <3>1, <3>2, <4>1, <4>3, <5>1, <5>2
      <4> QED
        BY <3>2, <3>6, <4>2, <4>3
    <3>7. ASSUME NEW i \in DOMAIN file', NEW j \in 1..(i - 1),
                 file'[j].run = file'[i].run, file'[j].n = file'[i].n
          PROVE  stream'[file'[i].run] = "closed"
      <4>1. CASE i \in DOMAIN file
        <5>1. stream[file[i].run] = "closed"
          BY <3>2, <3>7, <4>1 DEF SinkInv, RecordsAreAPrefix
        <5> QED
          BY <1>8, <3>2, <4>1, <5>1
      <4>2. CASE i = Len(file) + 1
        BY <3>1, <3>2, <3>3, <4>2
      <4> QED
        BY <3>2, <4>1, <4>2
    <3> QED
      BY <1>1, <3>4, <3>5, <3>6, <3>7 DEF RecordsAreAPrefix
  <2> QED
    BY <1>3, <2>1, <2>2
<1>10. ASSUME NEW q \in Runs
       PROVE  /\ stream'[q] = "good" => GoodInv(q)'
              /\ stream'[q] = "failed" => FailedInv(q)'
              /\ stream'[q] # "failed" => buffered'[q] = 0
  <2>1. CASE q = r
    BY <1>2, <2>1
  <2>2. CASE q # r
    <3>1. q \in Runs \ {r}
      BY <2>2
    <3>2. reported'[q] = reported[q] /\ stream'[q] = stream[q] /\ buffered'[q] = buffered[q]
      BY <1>1, <1>2, <2>2
    <3> QED
      BY <1>6, <3>1, <3>2, OthersUnmoved
  <2> QED
    BY <2>1, <2>2
<1> QED
  BY <1>7, <1>9, <1>10 DEF SinkInv

(* A record that is torn is still the record it was. *)
LEMMA TornFacts ==
  ASSUME NEW Events, NEW h \in Fragments(Events)
  PROVE  LET g == [h EXCEPT !.whole = FALSE] IN
         /\ g \in Fragments(Events)
         /\ g.run = h.run /\ g.n = h.n /\ g.event = h.event
BY DEF Fragments

(* An end of the file is lost: what is left is what it was, or torn where  *)
(* it ends.                                                                *)
LEMMA LosePowerInv ==
  ASSUME NEW Events, SinkTypeOK(Events), SinkInv, LosePower
  PROVE  SinkTypeOK(Events)' /\ SinkInv'
<1>1. /\ stream' = [r \in Runs |-> "closed"]
      /\ buffered' = [r \in Runs |-> 0]
      /\ UNCHANGED reported
      /\ faults' \in Nat
  BY DEF LosePower, Fault, SinkTypeOK
<1>2. file \in Seq(Fragments(Events))
  BY DEF SinkTypeOK
<1>3. PICK k \in 0..Len(file) :
        \/ file' = SubSeq(file, 1, k)
        \/ k > 0 /\ file' = [SubSeq(file, 1, k) EXCEPT ![k].whole = FALSE]
  BY <1>2 DEF LosePower
<1>4. /\ SubSeq(file, 1, k) \in Seq(Fragments(Events))
      /\ Len(SubSeq(file, 1, k)) = k
      /\ \A i \in 1..k : i \in DOMAIN file /\ SubSeq(file, 1, k)[i] = file[i]
  BY <1>2
<1>5. /\ file' \in Seq(Fragments(Events)) /\ DOMAIN file' = 1..k /\ Len(file') = k
      /\ \A i \in 1..k : /\ file'[i].run = file[i].run /\ file'[i].n = file[i].n
                         /\ file'[i].event = file[i].event
                         /\ i < k => file'[i].whole = file[i].whole
  <2>1. CASE file' = SubSeq(file, 1, k)
    BY <1>4, <2>1
  <2>2. CASE k > 0 /\ file' = [SubSeq(file, 1, k) EXCEPT ![k].whole = FALSE]
    <3> DEFINE t == SubSeq(file, 1, k)
               g == [t[k] EXCEPT !.whole = FALSE]
    <3>1. t[k] = file[k] /\ t[k] \in Fragments(Events)
      BY <1>4, <2>2
    <3>2. /\ g \in Fragments(Events) /\ g.run = file[k].run /\ g.n = file[k].n
          /\ g.event = file[k].event
      BY <3>1, TornFacts
    <3>3. file' = [t EXCEPT ![k] = g]
      BY <2>2
    <3>4. /\ t \in Seq(Fragments(Events)) /\ Len(t) = k
          /\ \A i \in 1..k : t[i] = file[i]
      BY <1>4
    <3> HIDE DEF g, t
    <3>5. file' \in Seq(Fragments(Events)) /\ DOMAIN file' = 1..k /\ Len(file') = k
      <4>1. k \in 1..Len(t)
        BY <2>2, <3>4
      <4>2. file' \in Seq(Fragments(Events)) /\ Len(file') = k
        BY <3>2, <3>3, <3>4, <4>1, ExceptSeq
      <4> QED
        BY <4>2
    <3>6. \A i \in 1..k : IF i = k THEN file'[i] = g ELSE file'[i] = file[i]
      BY <2>2, <3>3, <3>4
    <3>7. ASSUME NEW i \in 1..k
          PROVE  /\ file'[i].run = file[i].run /\ file'[i].n = file[i].n
                 /\ file'[i].event = file[i].event
                 /\ i < k => file'[i].whole = file[i].whole
      BY <3>2, <3>6
    <3> QED
      BY <3>5, <3>7
  <2> QED
    BY <1>3, <2>1, <2>2
<1>6. SinkTypeOK(Events)'
  BY <1>1, <1>5 DEF SinkTypeOK
<1>7. RecordsAreAPrefix'
  <2>1. ASSUME NEW i \in 1..k
        PROVE  /\ file'[i].n \in DOMAIN reported[file'[i].run]
               /\ file'[i].event = reported[file'[i].run][file'[i].n]
               /\ stream'[file'[i].run] = "closed"
    BY <1>1, <1>4, <1>5, FragmentFacts DEF SinkInv, RecordsAreAPrefix, Fragments
  <2>2. ASSUME NEW i \in 1..k, file'[i].n > 1
        PROVE  \E j \in 1..(i - 1) : file'[j].run = file'[i].run /\ file'[j].n = file'[i].n - 1
    <3>1. PICK j \in 1..(i - 1) : file[j].run = file[i].run /\ file[j].n = file[i].n - 1
      BY <1>4, <1>5, <2>2 DEF SinkInv, RecordsAreAPrefix
    <3> QED
      BY <1>5, <3>1
  <2>3. ASSUME NEW i \in 1..k, NEW j \in (i + 1)..k, file'[j].run = file'[i].run
        PROVE  \/ file'[j].n = file'[i].n
               \/ file'[i].whole /\ file'[j].n > file'[i].n
    <3>1. j \in 1..k /\ i < k /\ j \in (i + 1)..Len(file)
      BY <1>2
    <3>2. file[j].run = file[i].run
      BY <1>5, <2>3, <3>1
    <3>3. \/ file[j].n = file[i].n
          \/ file[i].whole /\ file[j].n > file[i].n
      BY <1>4, <3>1, <3>2 DEF SinkInv, RecordsAreAPrefix
    <3> QED
      BY <1>5, <3>1, <3>3
  <2> QED
    BY <1>1, <1>5, <2>1, <2>2, <2>3 DEF RecordsAreAPrefix
<1>8. \A r \in Runs : stream'[r] = "closed" /\ buffered'[r] = 0
  BY <1>1
<1> QED
  BY <1>6, <1>7, <1>8 DEF SinkInv
===============================================================================
