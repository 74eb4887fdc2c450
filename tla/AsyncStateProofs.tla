-------------------------- MODULE AsyncStateProofs --------------------------
(***************************************************************************)
(* Safety of the buffers of async.state objects, for any set of states,    *)
(* any stream and any sizes.  The three properties need each other: that a *)
(* direction has one owner keeps the stream in one place, and what a call  *)
(* of read_until saved decides what may be touched after it failed.        *)
(***************************************************************************)
EXTENDS AsyncState, SequenceTheorems, WellFoundedInduction, TLAPS

(* A state that was never used is empty and says nothing is done.          *)
Unused(s) ==
  ~st[s].init => ~st[s].isRead /\ ~st[s].done /\ st[s].buf = <<>> /\ delivered[s] = <<>>

(* What a running call of read_until saved describes a settled state.      *)
Saved(s) ==
  op[s] = "start" =>
    /\ saved.init => saved.done
    /\ ~saved.init => /\ ~saved.isRead /\ ~saved.done
                      /\ st[s].buf = <<>> /\ delivered[s] = <<>>
    /\ saved.isRead /\ saved.done => st[s].bytes <= Len(st[s].buf)

(* A state that writes holds its own data and nothing else.                *)
OwnData(s) ==
  op[s] = "write" =>
    /\ ~st[s].isRead /\ delivered[s] = <<>>
    /\ \A i \in DOMAIN st[s].buf : st[s].buf[i] = Out

(* A prepared region exists only while read fills it, and the result of a  *)
(* read is within the buffer before has_done says so.                      *)
Bounded(s) ==
  /\ op[s] # "read" => prep[s] = <<>>
  /\ st[s].isRead /\ (st[s].done \/ op[s] = "finish") => st[s].bytes <= Len(st[s].buf)

Owned(s) ==
  /\ ~Settled(s) <=> op[s] # "none"
  /\ op[s] \in {"start", "until", "read"} <=> reader = s
  /\ op[s] = "write" <=> writer = s

Local(s) == Unused(s) /\ Saved(s) /\ OwnData(s) /\ Bounded(s) /\ Owned(s)

IInv == TypeOK /\ (\A s \in States : Local(s)) /\ StreamExact
-----------------------------------------------------------------------------
(* The first match exists: the least number principle.                     *)
LEMMA Smallest ==
  ASSUME NEW T, \A t \in T : t \in Nat, T # {}
  PROVE  \E x \in T : \A y \in T : x <= y
<1> DEFINE R == OpToRel(<, Nat)
<1>1. IsWellFoundedOn(R, Nat)
  BY NatLessThanWellFounded
<1>2. T \subseteq Nat
  OBVIOUS
<1> HIDE DEF R
<1>3. PICK x \in T : \A y \in T : ~(<<y, x>> \in R)
  BY <1>1, <1>2, WFMin
<1>4. ASSUME NEW y \in T PROVE x <= y
  <2>1. x \in Nat /\ y \in Nat
    BY <1>2
  <2>2. y < x => <<y, x>> \in R
    BY <2>1 DEF R, OpToRel
  <2> QED
    BY <1>3, <2>1, <2>2
<1> QED
  BY <1>4

LEMMA FirstEndFacts ==
  ASSUME NEW S, NEW buf \in Seq(S), HasMatch(buf)
  PROVE  FirstEnd(buf) \in DOMAIN buf /\ FirstEnd(buf) \in Nat /\ FirstEnd(buf) <= Len(buf)
<1>1. DOMAIN buf = 1 .. Len(buf) /\ Len(buf) \in Nat
  OBVIOUS
<1> DEFINE T == {i \in DOMAIN buf : EndsAt(buf, i)}
<1>2. T # {}
  BY DEF HasMatch
<1>3. \A t \in T : t \in Nat
  BY <1>1
<1> HIDE DEF T
<1>4. \E x \in T : \A y \in T : x <= y
  BY <1>2, <1>3, Smallest
<1>5. \E i \in DOMAIN buf : EndsAt(buf, i) /\ \A j \in DOMAIN buf : EndsAt(buf, j) => i <= j
  BY <1>4 DEF T
<1>6. FirstEnd(buf) \in DOMAIN buf
  BY <1>5 DEF FirstEnd
<1> QED
  BY <1>1, <1>6
-----------------------------------------------------------------------------
(* Types.                                                                  *)

Rec == [init : BOOLEAN, isRead : BOOLEAN, done : BOOLEAN,
        bytes : Nat, buf : Seq(0..StreamLen), ec : {"ok", "error"}]
Kept == [init : BOOLEAN, isRead : BOOLEAN, done : BOOLEAN, ec : {"ok", "error"}]

LEMMA StateTypes ==
  ASSUME TypeOK, NEW s \in States
  PROVE  /\ st[s] \in Rec /\ st[s].buf \in Seq(0..StreamLen) /\ Len(st[s].buf) \in Nat
         /\ st[s].bytes \in Nat /\ DOMAIN st[s].buf = 1 .. Len(st[s].buf)
         /\ prep[s] \in Seq(1..StreamLen) /\ prep[s] \in Seq(0..StreamLen)
         /\ Len(prep[s]) \in Nat
         /\ delivered[s] \in Seq(0..StreamLen) /\ got \in Nat /\ got <= StreamLen
<1>1. st[s] \in Rec
  BY DEF TypeOK, Rec
<1>2. st[s].buf \in Seq(0..StreamLen) /\ st[s].bytes \in Nat
  BY <1>1 DEF Rec
<1>3. Len(st[s].buf) \in Nat /\ DOMAIN st[s].buf = 1 .. Len(st[s].buf)
  BY <1>2
<1>4. prep[s] \in Seq(1..StreamLen) /\ delivered[s] \in Seq(0..StreamLen) /\ got \in 0..StreamLen
  BY DEF TypeOK
<1>5. 1..StreamLen \subseteq 0..StreamLen
  BY AsyncStateAssumption
<1>6. prep[s] \in Seq(0..StreamLen) /\ Len(prep[s]) \in Nat
  <2>1. Seq(1..StreamLen) \subseteq Seq(0..StreamLen)
    <3> DEFINE S == 1..StreamLen
               T == 0..StreamLen
    <3>1. S \subseteq T
      BY <1>5
    <3> HIDE DEF S, T
    <3>2. Seq(S) \subseteq Seq(T)
      BY <3>1, SeqMonotonic
    <3> QED
      BY <3>2 DEF S, T
  <2> QED
    BY <1>4, <2>1
<1>7. got \in Nat /\ got <= StreamLen
  BY <1>4, AsyncStateAssumption
<1> QED
  BY <1>1, <1>2, <1>3, <1>4, <1>6, <1>7

(* The bytes that arrive.                                                  *)
LEMMA BytesType ==
  ASSUME TypeOK, NEW k \in 1..StreamLen, got + k <= StreamLen
  PROVE  /\ Bytes(got, got + k) \in Seq(1..StreamLen) /\ Bytes(got, got + k) \in Seq(0..StreamLen)
         /\ Len(Bytes(got, got + k)) = k
         /\ \A i \in 1..k : Bytes(got, got + k)[i] = got + i
         /\ got + k \in 0..StreamLen
<1>1. got \in Nat /\ StreamLen \in Nat /\ k \in Nat
  BY AsyncStateAssumption DEF TypeOK
<1>2. Bytes(got, got + k) = [i \in 1..k |-> got + i]
  BY <1>1 DEF Bytes
<1>3. \A i \in 1..k : got + i \in 1..StreamLen /\ got + i \in 0..StreamLen
  BY <1>1
<1>4. [i \in 1..k |-> got + i] \in Seq(1..StreamLen) /\ [i \in 1..k |-> got + i] \in Seq(0..StreamLen)
  BY <1>1, <1>3, IsASeq
<1>5. Len([i \in 1..k |-> got + i]) = k
  BY <1>1, <1>4
<1> QED
  BY <1>1, <1>2, <1>4, <1>5

LEMMA FlagsType == ASSUME NEW x \in Rec PROVE Flags(x) \in Kept
BY DEF Flags, Rec, Kept

LEMMA FreshFlags == Flags(Fresh) \in Kept
BY DEF Flags, Fresh, Kept

Types ==
  /\ st \in [States -> Rec] /\ saved \in Kept
  /\ op \in [States -> {"none", "start", "until", "read", "write", "finish"}]
  /\ prep \in [States -> Seq(1..StreamLen)] /\ want \in [States -> Nat]
  /\ reader \in States \cup {NoOne} /\ writer \in States \cup {NoOne}
  /\ got \in 0..StreamLen /\ delivered \in [States -> Seq(0..StreamLen)]

LEMMA TypesNamed == (TypeOK <=> Types) /\ (TypeOK' <=> Types')
BY DEF TypeOK, Types, Rec, Kept

(* Two parts of a buffer.                                                  *)
LEMMA ConcatType ==
  ASSUME NEW S, NEW a \in Seq(S), NEW b \in Seq(S)
  PROVE  /\ a \o b \in Seq(S) /\ Len(a \o b) = Len(a) + Len(b)
         /\ Len(a) \in Nat /\ Len(b) \in Nat
         /\ \A i \in 1 .. Len(a) + Len(b) :
              (a \o b)[i] = IF i <= Len(a) THEN a[i] ELSE b[i - Len(a)]
OBVIOUS

(* A part of a buffer.                                                     *)
LEMMA SubSeqType ==
  ASSUME NEW S, NEW q \in Seq(S), NEW n \in Nat, n <= Len(q)
  PROVE  /\ SubSeq(q, 1, n) \in Seq(S) /\ SubSeq(q, n + 1, Len(q)) \in Seq(S)
         /\ Len(SubSeq(q, 1, n)) = n /\ Len(SubSeq(q, n + 1, Len(q))) = Len(q) - n
         /\ \A i \in 1 .. n : SubSeq(q, 1, n)[i] = q[i]
         /\ \A i \in 1 .. Len(q) - n : SubSeq(q, n + 1, Len(q))[i] = q[n + i]
OBVIOUS

(* The start of an operation, or of nothing.                               *)
LEMMA CallType ==
  ASSUME Types, NEW s \in States, ReadUntil(s) \/ UntilStarted(s) \/ UntilNotStarted(s)
  PROVE  Types'
<1>1. st[s] \in Rec
  BY DEF Types
<1>2. CASE ReadUntil(s)
  <2>1. st' \in [States -> Rec]
    BY <1>1, <1>2 DEF Types, ReadUntil, Rec
  <2>2. saved' \in Kept
    BY <1>1, <1>2, FlagsType DEF ReadUntil
  <2> QED
    BY <1>2, <2>1, <2>2 DEF Types, ReadUntil
<1>3. CASE UntilStarted(s)
  BY <1>3, FreshFlags DEF Types, UntilStarted
<1>4. CASE UntilNotStarted(s)
  <2>1. st' \in [States -> Rec]
    BY <1>1, <1>4 DEF Types, UntilNotStarted, Rec, Kept
  <2> QED
    BY <1>4, <2>1, FreshFlags DEF Types, UntilNotStarted
<1> QED
  BY <1>2, <1>3, <1>4

LEMMA NewType ==
  ASSUME Types, NEW s \in States, NEW n \in 1..MaxRequest, Read(s, n) \/ Write(s, n)
  PROVE  Types'
<1>1. st[s] \in Rec /\ n \in Nat
  BY AsyncStateAssumption DEF Types
<1>2. CASE Read(s, n)
  <2>1. st' \in [States -> Rec]
    BY <1>1, <1>2 DEF Types, Read, Rec
  <2> QED
    BY <1>1, <1>2, <2>1 DEF Types, Read
<1>3. CASE Write(s, n)
  <2>1. [i \in 1..n |-> Out] \in Seq(0..StreamLen)
    <3>1. Out \in 0..StreamLen
      BY AsyncStateAssumption DEF Out
    <3> QED
      BY <1>1, <3>1, IsASeq
  <2>2. st' = [st EXCEPT ![s].init = TRUE, ![s].buf = [i \in 1..n |-> Out]]
    BY <1>3 DEF Write
  <2> DEFINE b == [i \in 1..n |-> Out]
  <2>3. b \in Seq(0..StreamLen) /\ st' = [st EXCEPT ![s].init = TRUE, ![s].buf = b]
    BY <2>1, <2>2
  <2> HIDE DEF b
  <2>4. st' \in [States -> Rec]
    BY <1>1, <2>3 DEF Types, Rec
  <2> QED
    BY <1>3, <2>4 DEF Types, Write
<1> QED
  BY <1>2, <1>3

LEMMA BufType ==
  ASSUME NEW f \in [States -> Rec], NEW s \in States, NEW y \in Seq(0..StreamLen), NEW b \in Nat
  PROVE  [f EXCEPT ![s].buf = y, ![s].bytes = b] \in [States -> Rec]
<1>1. [f[s] EXCEPT !.buf = y, !.bytes = b] \in Rec
  BY DEF Rec
<1> QED
  BY <1>1

(* get_result and get_buffer: the first n bytes of the buffer.             *)
LEMMA TakeType ==
  ASSUME Types, NEW s \in States, NEW n \in Nat, n <= Len(st[s].buf), NEW b \in Nat, Take(s, n),
         st' = [st EXCEPT ![s].buf = SubSeq(st[s].buf, n + 1, Len(st[s].buf)), ![s].bytes = b]
  PROVE  Types'
<1>1. st[s] \in Rec /\ delivered[s] \in Seq(0..StreamLen)
  BY DEF Types
<1>2. st[s].buf \in Seq(0..StreamLen)
  BY <1>1 DEF Rec
<1>3. PICK x \in Seq(0..StreamLen) : x = SubSeq(st[s].buf, 1, n)
  BY <1>2, SubSeqType
<1>4. PICK y \in Seq(0..StreamLen) : y = SubSeq(st[s].buf, n + 1, Len(st[s].buf))
  BY <1>2, SubSeqType
<1>5. st' = [st EXCEPT ![s].buf = y, ![s].bytes = b]
  BY <1>4
<1>6. st' \in [States -> Rec]
  <2>1. st \in [States -> Rec]
    BY DEF Types
  <2>2. [st EXCEPT ![s].buf = y, ![s].bytes = b] \in [States -> Rec]
    BY <2>1, BufType
  <2> QED
    BY <1>5, <2>2
<1>7. delivered[s] \o x \in Seq(0..StreamLen)
  BY <1>1
<1>8. delivered' = [delivered EXCEPT ![s] = delivered[s] \o x]
  BY <1>3 DEF Take
<1>9. delivered' \in [States -> Seq(0..StreamLen)]
  BY <1>7, <1>8 DEF Types
<1> QED
  BY <1>6, <1>9 DEF Types, Take

(* The end of a read.                                                      *)
LEMMA ReadDoneType ==
  ASSUME Types, NEW s \in States, NEW n \in Nat, NEW e \in {"ok", "error"},
         NEW buf \in Seq(0..StreamLen), ReadDone(s, n, e, buf),
         got' \in 0..StreamLen, prep' = prep \/ prep' = [prep EXCEPT ![s] = <<>>]
  PROVE  Types'
<1>1. st[s] \in Rec
  BY DEF Types
<1>2. st' \in [States -> Rec]
  BY <1>1 DEF Types, ReadDone, Rec
<1>3. prep' \in [States -> Seq(1..StreamLen)]
  <2>1. <<>> \in Seq(1..StreamLen)
    OBVIOUS
  <2> QED
    BY <2>1 DEF Types
<1> QED
  BY <1>2, <1>3 DEF Types, ReadDone

LEMMA TypeStep ==
  ASSUME IInv, NEW s \in States, Call(s) \/ Handler(s) PROVE TypeOK'
<1>0. Types /\ TypeOK /\ Local(s)
  BY TypesNamed DEF IInv
<1>1. /\ st[s] \in Rec /\ st[s].buf \in Seq(0..StreamLen) /\ Len(st[s].buf) \in Nat
      /\ st[s].bytes \in Nat /\ prep[s] \in Seq(1..StreamLen) /\ prep[s] \in Seq(0..StreamLen)
      /\ Len(prep[s]) \in Nat /\ got \in Nat
  BY <1>0, StateTypes
<1>2. SUFFICES Types'
  BY TypesNamed
<1>3. CASE GetResult(s)
  <2>1. st[s].bytes <= Len(st[s].buf)
    BY <1>0, <1>3 DEF GetResult, Local, Bounded
  <2>2. PICK n \in Nat : n = st[s].bytes
    BY <1>1
  <2>3. Take(s, n) /\ st' = [st EXCEPT ![s].buf = SubSeq(st[s].buf, n + 1, Len(st[s].buf)), ![s].bytes = 0]
    BY <1>3, <2>2 DEF GetResult
  <2> QED
    BY <1>0, <2>1, <2>2, <2>3, TakeType
<1>4. ASSUME NEW m \in 1..MaxRequest, GetBuffer(s, m) PROVE Types'
  <2>1. PICK n \in Nat : n = IF m < Len(st[s].buf) THEN m ELSE Len(st[s].buf)
    BY <1>1, AsyncStateAssumption
  <2>2. n <= Len(st[s].buf)
    BY <1>1, <2>1, AsyncStateAssumption
  <2>3. PICK b \in Nat : b = IF st[s].bytes > n THEN st[s].bytes - n ELSE 0
    BY <1>1
  <2>4. Take(s, n) /\ st' = [st EXCEPT ![s].buf = SubSeq(st[s].buf, n + 1, Len(st[s].buf)), ![s].bytes = b]
    BY <1>4, <2>1, <2>3 DEF GetBuffer
  <2> QED
    BY <1>0, <2>2, <2>4, TakeType
<1>5. CASE UntilMatched(s)
  <2>1. FirstEnd(st[s].buf) \in Nat
    BY <1>1, <1>5, FirstEndFacts DEF UntilMatched
  <2>2. ReadDone(s, FirstEnd(st[s].buf), "ok", st[s].buf) /\ prep' = prep /\ got' = got
    BY <1>5 DEF UntilMatched
  <2>3. got' \in 0..StreamLen
    BY <1>0, <2>2 DEF Types
  <2> QED
    BY <1>0, <1>1, <2>1, <2>2, <2>3, ReadDoneType
<1>6. CASE UntilFails(s)
  <2>1. ReadDone(s, 0, "error", st[s].buf) /\ prep' = prep /\ got' = got
    BY <1>6 DEF UntilFails
  <2>2. got' \in 0..StreamLen
    BY <1>0, <2>1 DEF Types
  <2> QED
    BY <1>0, <1>1, <2>1, <2>2, ReadDoneType
<1>7. ASSUME NEW k \in 1..StreamLen, UntilReceives(s, k) PROVE Types'
  <2>1. got + k <= StreamLen /\ got' = got + k /\ prep' = prep
    BY <1>7 DEF UntilReceives
  <2>2. got' \in 0..StreamLen /\ Bytes(got, got + k) \in Seq(0..StreamLen)
    BY <1>0, <2>1, BytesType
  <2>3. PICK buf \in Seq(0..StreamLen) : buf = st[s].buf \o Bytes(got, got + k)
    BY <1>1, <2>2, ConcatType
  <2>4. CASE HasMatch(buf)
    <3>1. ReadDone(s, FirstEnd(buf), "ok", buf)
      BY <1>7, <2>3, <2>4 DEF UntilReceives
    <3>2. FirstEnd(buf) \in Nat
      BY <2>4, FirstEndFacts
    <3> QED
      BY <1>0, <2>1, <2>2, <3>1, <3>2, ReadDoneType
  <2>5. CASE ~HasMatch(buf)
    <3>1. st' = [st EXCEPT ![s].buf = buf] /\ UNCHANGED <<op, want, saved, reader, writer, delivered>>
      BY <1>7, <2>3, <2>5 DEF UntilReceives
    <3>2. st' \in [States -> Rec]
      BY <1>0, <1>1, <3>1 DEF Types, Rec
    <3> QED
      BY <1>0, <2>1, <2>2, <3>1, <3>2 DEF Types
  <2> QED
    BY <2>4, <2>5
<1>8. ASSUME NEW e \in {"ok", "error"}, NEW region \in Seq(0..StreamLen), Commit(s, region, e),
             got' \in 0..StreamLen
      PROVE  Types'
  <2>1. PICK buf \in Seq(0..StreamLen) : buf = st[s].buf \o region
    BY <1>1, ConcatType
  <2>2. Len(region) \in Nat
    OBVIOUS
  <2>3. ReadDone(s, Len(region), e, buf) /\ prep' = [prep EXCEPT ![s] = <<>>]
    BY <1>8, <2>1 DEF Commit
  <2> QED
    BY <1>0, <1>8, <2>2, <2>3, ReadDoneType
<1>9. ASSUME NEW k \in 1..StreamLen, ReadReceives(s, k) PROVE Types'
  <2>1. got + k <= StreamLen /\ got' = got + k
    BY <1>9 DEF ReadReceives
  <2>2. got' \in 0..StreamLen /\ Bytes(got, got + k) \in Seq(0..StreamLen)
        /\ Bytes(got, got + k) \in Seq(1..StreamLen)
    BY <1>0, <2>1, BytesType
  <2>3. PICK region \in Seq(0..StreamLen) : region = prep[s] \o Bytes(got, got + k)
    BY <1>1, <2>2, ConcatType
  <2>4. region \in Seq(1..StreamLen)
    BY <1>1, <2>2, <2>3
  <2>5. CASE Len(region) = want[s]
    BY <1>8, <1>9, <2>2, <2>3, <2>5 DEF ReadReceives
  <2>6. CASE Len(region) # want[s]
    <3>1. prep' = [prep EXCEPT ![s] = region]
          /\ UNCHANGED <<st, op, want, saved, reader, writer, delivered>>
      BY <1>9, <2>3, <2>6 DEF ReadReceives
    <3> QED
      BY <1>0, <2>2, <2>4, <3>1 DEF Types
  <2> QED
    BY <2>5, <2>6
<1>10. CASE ReadFails(s)
  <2>1. Commit(s, prep[s], "error") /\ got' = got
    BY <1>10 DEF ReadFails
  <2>2. got' \in 0..StreamLen
    BY <1>0, <2>1 DEF Types
  <2> QED
    BY <1>1, <1>8, <2>1, <2>2
<1>11. ASSUME NEW n \in 0..MaxRequest, WriteDone(s, n) PROVE Types'
  <2>1. n \in Nat /\ n <= Len(st[s].buf)
    BY <1>11, AsyncStateAssumption DEF WriteDone
  <2>2. PICK y \in Seq(0..StreamLen) : y = SubSeq(st[s].buf, n + 1, Len(st[s].buf))
    BY <1>1, <2>1, SubSeqType
  <2>3. PICK e \in {"ok", "error"} : e = IF n = Len(st[s].buf) THEN "ok" ELSE "error"
    OBVIOUS
  <2>4. st' = [st EXCEPT ![s].bytes = n, ![s].buf = y, ![s].ec = e]
    BY <1>11, <2>2, <2>3 DEF WriteDone
  <2>5. st' \in [States -> Rec]
    BY <1>0, <1>1, <2>1, <2>4 DEF Types, Rec
  <2> QED
    BY <1>0, <1>11, <2>5 DEF Types, WriteDone
<1>12. CASE StoreHasDone(s)
  <2>1. st' \in [States -> Rec]
    BY <1>0, <1>1, <1>12 DEF Types, Rec, StoreHasDone
  <2> QED
    BY <1>0, <1>12, <2>1 DEF Types, StoreHasDone
<1> QED
  BY <1>0, <1>3, <1>4, <1>5, <1>6, <1>7, <1>9, <1>10, <1>11, <1>12, CallType, NewType
     DEF Call, Handler
-----------------------------------------------------------------------------
(* A step touches one state.                                               *)
Same(t) ==
  st'[t] = st[t] /\ op'[t] = op[t] /\ prep'[t] = prep[t] /\ delivered'[t] = delivered[t]

LEMMA Others ==
  ASSUME Types, NEW s \in States, Call(s) \/ Handler(s), NEW t \in States, t # s
  PROVE  Same(t)
<1>1. /\ st \in [States -> Rec] /\ op \in [States -> {"none", "start", "until", "read", "write", "finish"}]
      /\ prep \in [States -> Seq(1..StreamLen)] /\ delivered \in [States -> Seq(0..StreamLen)]
  BY DEF Types
<1>2. CASE ReadUntil(s) \/ UntilStarted(s) \/ UntilNotStarted(s)
  BY <1>1, <1>2 DEF Same, ReadUntil, UntilStarted, UntilNotStarted
<1>3. CASE \E n \in 1..MaxRequest : Read(s, n) \/ Write(s, n)
  BY <1>1, <1>3 DEF Same, Read, Write
<1>4. CASE GetResult(s) \/ \E n \in 1..MaxRequest : GetBuffer(s, n)
  <2>1. CASE GetResult(s)
    BY <1>1, <2>1 DEF Same, GetResult, Take
  <2>2. ASSUME NEW n \in 1..MaxRequest, GetBuffer(s, n) PROVE Same(t)
    BY <1>1, <2>2 DEF Same, GetBuffer, Take
  <2> QED
    BY <1>4, <2>1, <2>2
<1>5. CASE UntilMatched(s) \/ UntilFails(s)
  BY <1>1, <1>5 DEF Same, UntilMatched, UntilFails, ReadDone
<1>6. ASSUME NEW k \in 1..StreamLen, UntilReceives(s, k) PROVE Same(t)
  BY <1>1, <1>6 DEF Same, UntilReceives, ReadDone
<1>7. ASSUME NEW k \in 1..StreamLen, ReadReceives(s, k) PROVE Same(t)
  BY <1>1, <1>7 DEF Same, ReadReceives, Commit, ReadDone
<1>8. CASE ReadFails(s)
  BY <1>1, <1>8 DEF Same, ReadFails, Commit, ReadDone
<1>9. CASE StoreHasDone(s) \/ \E n \in 0..MaxRequest : WriteDone(s, n)
  BY <1>1, <1>9 DEF Same, StoreHasDone, WriteDone
<1> QED
  BY <1>2, <1>3, <1>4, <1>5, <1>6, <1>7, <1>8, <1>9 DEF Call, Handler

(* The reservations and what was saved change for the state of the step.   *)
LEMMA Directions ==
  ASSUME IInv, NEW s \in States, Call(s) \/ Handler(s), NEW t \in States, t # s
  PROVE  /\ reader' = t <=> reader = t
         /\ writer' = t <=> writer = t
         /\ op[t] = "start" => saved' = saved
<1>0. /\ op \in [States -> {"none", "start", "until", "read", "write", "finish"}]
      /\ op[t] = "start" => reader = t
      /\ op[s] \in {"start", "until", "read"} <=> reader = s
      /\ op[s] = "write" <=> writer = s
      /\ NoOne # s /\ NoOne # t
  BY NoOneAssumption DEF IInv, TypeOK, Local, Owned
<1>2. CASE ReadUntil(s) \/ UntilStarted(s) \/ UntilNotStarted(s)
  BY <1>0, <1>2 DEF ReadUntil, UntilStarted, UntilNotStarted, Quiet
<1>3. CASE \E n \in 1..MaxRequest : Read(s, n) \/ Write(s, n)
  BY <1>0, <1>3 DEF Read, Write
<1>4. CASE GetResult(s) \/ \E n \in 1..MaxRequest : GetBuffer(s, n)
  <2>1. saved' = saved /\ reader' = reader /\ writer' = writer
    BY <1>4 DEF GetResult, GetBuffer, Take
  <2> QED
    BY <2>1
<1>5. CASE UntilMatched(s) \/ UntilFails(s) \/ ReadFails(s)
  BY <1>0, <1>5 DEF UntilMatched, UntilFails, ReadFails, Commit, ReadDone
<1>6. CASE \E k \in 1..StreamLen : UntilReceives(s, k) \/ ReadReceives(s, k)
  <2>1. op[s] \in {"until", "read"} /\ saved' = saved /\ writer' = writer /\ (reader' = NoOne \/ reader' = reader)
    BY <1>6 DEF UntilReceives, ReadReceives, Commit, ReadDone
  <2> QED
    BY <1>0, <2>1
<1>9. CASE StoreHasDone(s) \/ \E n \in 0..MaxRequest : WriteDone(s, n)
  BY <1>0, <1>9 DEF StoreHasDone, WriteDone
<1> QED
  BY <1>2, <1>3, <1>4, <1>5, <1>6, <1>9 DEF Call, Handler

LEMMA LocalOther ==
  ASSUME IInv, NEW s \in States, Call(s) \/ Handler(s), NEW t \in States, t # s
  PROVE  Local(t)'
<1>1. Same(t)
  BY Others, TypesNamed DEF IInv
<1>2. /\ reader' = t <=> reader = t
      /\ writer' = t <=> writer = t
      /\ op[t] = "start" => saved' = saved
  BY Directions
<1>3. Local(t)
  BY DEF IInv
<1>4. Unused(t)' /\ OwnData(t)' /\ Bounded(t)'
  BY <1>1, <1>3 DEF Local, Same, Unused, OwnData, Bounded
<1>5. Saved(t)'
  BY <1>1, <1>2, <1>3 DEF Local, Same, Saved
<1>6. Owned(t)'
  BY <1>1, <1>2, <1>3 DEF Local, Same, Owned, Settled
<1> QED
  BY <1>4, <1>5, <1>6 DEF Local
-----------------------------------------------------------------------------
(* The state of the step.                                                  *)

(* The calls of read_until, up to their return or their exception.         *)
LEMMA LocalUntil ==
  ASSUME IInv, NEW s \in States, ReadUntil(s) \/ UntilStarted(s) \/ UntilNotStarted(s)
  PROVE  Local(s)'
<1>0. /\ st \in [States -> Rec] /\ op \in [States -> {"none", "start", "until", "read", "write", "finish"}]
      /\ st[s] \in Rec /\ NoOne # s /\ saved \in Kept
      /\ Unused(s) /\ Saved(s) /\ OwnData(s) /\ Bounded(s) /\ Owned(s)
  BY TypesNamed, NoOneAssumption DEF IInv, Types, Local
<1>1. CASE ReadUntil(s)
  <2>1. /\ st'[s].init = TRUE /\ st'[s].isRead = TRUE /\ st'[s].done = FALSE
        /\ st'[s].buf = st[s].buf /\ st'[s].bytes = st[s].bytes
        /\ op'[s] = "start" /\ prep'[s] = prep[s] /\ delivered'[s] = delivered[s]
        /\ reader' = s /\ writer' = writer
    BY <1>0, <1>1 DEF ReadUntil, Rec
  <2>2. saved'.init = st[s].init /\ saved'.isRead = st[s].isRead /\ saved'.done = st[s].done
    BY <1>1 DEF ReadUntil, Flags
  <2>3. Settled(s) /\ op[s] = "none"
    BY <1>0, <1>1 DEF ReadUntil, Owned
  <2>4. Unused(s)' /\ OwnData(s)' /\ Bounded(s)'
    BY <1>0, <2>1, <2>3 DEF Unused, OwnData, Bounded
  <2>5. Saved(s)'
    <3>1. st[s].init => st[s].done
      BY <2>3 DEF Settled
    <3> QED
      BY <1>0, <2>1, <2>2, <3>1 DEF Saved, Unused, Bounded
  <2>6. Owned(s)'
    BY <1>0, <2>1, <2>3 DEF Owned, Settled
  <2> QED
    BY <2>4, <2>5, <2>6 DEF Local
<1>2. CASE UntilStarted(s)
  <2>1. /\ st' = st /\ op[s] = "start" /\ op'[s] = "until" /\ prep'[s] = prep[s] /\ delivered'[s] = delivered[s]
        /\ reader' = reader /\ writer' = writer
    BY <1>0, <1>2 DEF UntilStarted
  <2> QED
    BY <1>0, <2>1 DEF Local, Unused, Saved, OwnData, Bounded, Owned, Settled
<1>3. CASE UntilNotStarted(s)
  <2>1. /\ st'[s].init = saved.init /\ st'[s].isRead = saved.isRead /\ st'[s].done = saved.done
        /\ st'[s].buf = st[s].buf /\ st'[s].bytes = st[s].bytes
        /\ op[s] = "start" /\ op'[s] = "none" /\ prep'[s] = prep[s] /\ delivered'[s] = delivered[s]
        /\ reader' = NoOne /\ writer' = writer
    BY <1>0, <1>3 DEF UntilNotStarted, Rec
  <2>2. Unused(s)' /\ OwnData(s)' /\ Bounded(s)' /\ Saved(s)'
    BY <1>0, <2>1 DEF Unused, OwnData, Bounded, Saved
  <2>3. Owned(s)'
    BY <1>0, <2>1 DEF Owned, Settled, Saved
  <2> QED
    BY <2>2, <2>3 DEF Local
<1> QED
  BY <1>1, <1>2, <1>3

(* read and write on a new state.                                          *)
LEMMA LocalNew ==
  ASSUME IInv, NEW s \in States, NEW n \in 1..MaxRequest, Read(s, n) \/ Write(s, n)
  PROVE  Local(s)'
<1>0. /\ st \in [States -> Rec] /\ op \in [States -> {"none", "start", "until", "read", "write", "finish"}]
      /\ st[s] \in Rec /\ NoOne # s
      /\ Unused(s) /\ Saved(s) /\ OwnData(s) /\ Bounded(s) /\ Owned(s)
  BY TypesNamed, NoOneAssumption DEF IInv, Types, Local
<1>00. ~st[s].init
  BY DEF Read, Write
<1>01. op[s] = "none" /\ ~st[s].done
  BY <1>0, <1>00 DEF Owned, Settled, Unused
<1>1. CASE Read(s, n)
  <2>1. /\ st'[s].init = TRUE /\ st'[s].isRead = TRUE /\ st'[s].done = st[s].done
        /\ st'[s].buf = st[s].buf /\ st'[s].bytes = st[s].bytes
        /\ op'[s] = "read" /\ prep'[s] = prep[s] /\ delivered'[s] = delivered[s]
        /\ reader' = s /\ writer' = writer
    BY <1>0, <1>1 DEF Read, Rec
  <2>2. Unused(s)' /\ Saved(s)' /\ OwnData(s)' /\ Bounded(s)'
    BY <1>0, <1>01, <2>1 DEF Unused, OwnData, Bounded, Saved
  <2>3. Owned(s)'
    BY <1>0, <1>01, <2>1 DEF Owned, Settled
  <2> QED
    BY <2>2, <2>3 DEF Local
<1>2. CASE Write(s, n)
  <2>0. PICK b : b = [i \in 1..n |-> Out]
    OBVIOUS
  <2>1. /\ st'[s].init = TRUE /\ st'[s].isRead = st[s].isRead /\ st'[s].done = st[s].done
        /\ st'[s].buf = b
        /\ op'[s] = "write" /\ prep'[s] = prep[s] /\ delivered'[s] = delivered[s]
        /\ reader' = reader /\ writer' = s
    BY <1>0, <1>2, <2>0 DEF Write, Rec
  <2>2. \A i \in DOMAIN b : b[i] = Out
    BY <2>0
  <2>3. OwnData(s)'
    BY <1>0, <1>00, <2>1, <2>2 DEF OwnData, Unused
  <2>4. Unused(s)' /\ Saved(s)' /\ Bounded(s)'
    BY <1>0, <1>00, <1>01, <2>1 DEF Unused, Bounded, Saved
  <2>5. Owned(s)'
    BY <1>0, <1>01, <2>1 DEF Owned, Settled
  <2> QED
    BY <2>3, <2>4, <2>5 DEF Local
<1> QED
  BY <1>1, <1>2

(* get_result and get_buffer: the result stays within what is left.        *)
LEMMA LocalTake ==
  ASSUME IInv, NEW s \in States, st[s].isRead, st[s].done, op[s] = op'[s],
         NEW n \in Nat, n <= Len(st[s].buf), NEW b \in Nat, b <= Len(st[s].buf) - n, Take(s, n),
         st' = [st EXCEPT ![s].buf = SubSeq(st[s].buf, n + 1, Len(st[s].buf)), ![s].bytes = b]
  PROVE  Local(s)'
<1>0. /\ st \in [States -> Rec] /\ st[s] \in Rec
      /\ st[s].buf \in Seq(0..StreamLen) /\ Len(st[s].buf) \in Nat
      /\ Unused(s) /\ Saved(s) /\ OwnData(s) /\ Bounded(s) /\ Owned(s)
  BY TypesNamed, StateTypes DEF IInv, Types, Local
<1>1. PICK y \in Seq(0..StreamLen) : y = SubSeq(st[s].buf, n + 1, Len(st[s].buf)) /\ Len(y) = Len(st[s].buf) - n
  <2>1. PICK q \in Seq(0..StreamLen) : q = st[s].buf
    BY <1>0
  <2>2. n <= Len(q)
    BY <2>1
  <2>3. SubSeq(q, n + 1, Len(q)) \in Seq(0..StreamLen) /\ Len(SubSeq(q, n + 1, Len(q))) = Len(q) - n
    BY ONLY <2>2, SubSeqType, n \in Nat, q \in Seq(0..StreamLen)
  <2> QED
    BY <2>1, <2>3
<1>2. /\ st'[s].init = st[s].init /\ st'[s].isRead /\ st'[s].done
      /\ st'[s].buf = y /\ st'[s].bytes = b
  BY <1>0, <1>1 DEF Rec
<1>3. prep'[s] = prep[s] /\ reader' = reader /\ writer' = writer
  BY DEF Take
<1>4. st[s].init /\ op[s] = "none"
  BY <1>0 DEF Unused, Owned, Settled
<1>5. Unused(s)' /\ Saved(s)' /\ OwnData(s)'
  BY <1>2, <1>4 DEF Unused, Saved, OwnData
<1>6. Bounded(s)'
  BY <1>0, <1>1, <1>2, <1>3, <1>4 DEF Bounded
<1>7. Owned(s)'
  BY <1>0, <1>2, <1>3, <1>4 DEF Owned, Settled
<1> QED
  BY <1>5, <1>6, <1>7 DEF Local

(* The end of a read: the result is within the buffer.                     *)
LEMMA LocalReadDone ==
  ASSUME IInv, NEW s \in States, op[s] \in {"until", "read"},
         NEW n \in Nat, NEW e, NEW buf \in Seq(0..StreamLen), n <= Len(buf),
         ReadDone(s, n, e, buf), prep'[s] = <<>>
  PROVE  Local(s)'
<1>0. /\ st \in [States -> Rec] /\ st[s] \in Rec /\ NoOne # s
      /\ op \in [States -> {"none", "start", "until", "read", "write", "finish"}]
      /\ Unused(s) /\ Saved(s) /\ OwnData(s) /\ Bounded(s) /\ Owned(s)
  BY TypesNamed, NoOneAssumption DEF IInv, Types, Local
<1>1. /\ st'[s].init = st[s].init /\ st'[s].isRead = st[s].isRead /\ st'[s].done = st[s].done
      /\ st'[s].buf = buf /\ st'[s].bytes = n
      /\ op'[s] = "finish" /\ reader' = NoOne /\ writer' = writer
  BY <1>0 DEF ReadDone, Rec
<1>2. st[s].init /\ ~st[s].done
  BY <1>0 DEF Owned, Settled
<1>3. Unused(s)' /\ Saved(s)' /\ OwnData(s)' /\ Bounded(s)'
  BY <1>1, <1>2 DEF Unused, Saved, OwnData, Bounded
<1>4. Owned(s)'
  BY <1>0, <1>1, <1>2 DEF Owned, Settled
<1> QED
  BY <1>3, <1>4 DEF Local

LEMMA LocalSelf ==
  ASSUME IInv, NEW s \in States, Call(s) \/ Handler(s) PROVE Local(s)'
<1>0. /\ Types /\ TypeOK /\ NoOne # s
      /\ st \in [States -> Rec] /\ op \in [States -> {"none", "start", "until", "read", "write", "finish"}]
      /\ Unused(s) /\ Saved(s) /\ OwnData(s) /\ Bounded(s) /\ Owned(s)
  BY TypesNamed, NoOneAssumption DEF IInv, Types, Local
<1>1. /\ st[s] \in Rec /\ st[s].buf \in Seq(0..StreamLen) /\ Len(st[s].buf) \in Nat
      /\ st[s].bytes \in Nat /\ prep[s] \in Seq(1..StreamLen) /\ prep[s] \in Seq(0..StreamLen)
      /\ Len(prep[s]) \in Nat /\ got \in Nat /\ prep \in [States -> Seq(1..StreamLen)]
  BY <1>0, StateTypes DEF Types
<1>3. CASE GetResult(s)
  <2>1. st[s].bytes <= Len(st[s].buf) /\ st[s].isRead /\ st[s].done
    BY <1>0, <1>3 DEF GetResult, Bounded
  <2>2. PICK n \in Nat : n = st[s].bytes
    BY <1>1
  <2>3. Take(s, n) /\ st' = [st EXCEPT ![s].buf = SubSeq(st[s].buf, n + 1, Len(st[s].buf)), ![s].bytes = 0]
    BY <1>3, <2>2 DEF GetResult
  <2>4. op[s] = op'[s] /\ n <= Len(st[s].buf) /\ 0 <= Len(st[s].buf) - n
    BY <1>1, <2>1, <2>2, <2>3 DEF Take
  <2> QED
    BY <2>1, <2>3, <2>4, LocalTake
<1>4. ASSUME NEW m \in 1..MaxRequest, GetBuffer(s, m) PROVE Local(s)'
  <2>1. PICK n \in Nat : n = IF m < Len(st[s].buf) THEN m ELSE Len(st[s].buf)
    BY <1>1, AsyncStateAssumption
  <2>2. n <= Len(st[s].buf)
    BY <1>1, <2>1, AsyncStateAssumption
  <2>3. PICK b \in Nat : b = IF st[s].bytes > n THEN st[s].bytes - n ELSE 0
    BY <1>1
  <2>4. Take(s, n) /\ st' = [st EXCEPT ![s].buf = SubSeq(st[s].buf, n + 1, Len(st[s].buf)), ![s].bytes = b]
    BY <1>4, <2>1, <2>3 DEF GetBuffer
  <2>5. st[s].isRead /\ st[s].done /\ op'[s] = op[s]
    BY <1>4, <2>4 DEF GetBuffer, Take
  <2>6. st[s].bytes <= Len(st[s].buf)
    BY <1>0, <2>5 DEF Bounded
  <2>7. b <= Len(st[s].buf) - n
    BY <1>1, <2>2, <2>3, <2>6
  <2> QED
    BY <2>2, <2>4, <2>5, <2>7, LocalTake
<1>5. CASE UntilMatched(s)
  <2>1. FirstEnd(st[s].buf) \in Nat /\ FirstEnd(st[s].buf) <= Len(st[s].buf)
    BY <1>1, <1>5, FirstEndFacts DEF UntilMatched
  <2>2. ReadDone(s, FirstEnd(st[s].buf), "ok", st[s].buf) /\ prep'[s] = <<>> /\ op[s] = "until"
    BY <1>0, <1>5 DEF UntilMatched, Bounded
  <2> QED
    BY <1>1, <2>1, <2>2, LocalReadDone
<1>6. CASE UntilFails(s)
  <2>1. ReadDone(s, 0, "error", st[s].buf) /\ prep'[s] = <<>> /\ op[s] = "until"
    BY <1>0, <1>6 DEF UntilFails, Bounded
  <2> QED
    BY <1>1, <2>1, LocalReadDone
<1>7. ASSUME NEW k \in 1..StreamLen, UntilReceives(s, k) PROVE Local(s)'
  <2>1. got + k <= StreamLen /\ got' = got + k /\ prep' = prep /\ op[s] = "until" /\ prep[s] = <<>>
    BY <1>0, <1>7 DEF UntilReceives, Bounded
  <2>2. Bytes(got, got + k) \in Seq(0..StreamLen)
    BY <1>0, <2>1, BytesType
  <2>3. PICK buf \in Seq(0..StreamLen) : buf = st[s].buf \o Bytes(got, got + k)
    BY <1>1, <2>2, ConcatType
  <2>4. CASE HasMatch(buf)
    <3>1. ReadDone(s, FirstEnd(buf), "ok", buf)
      BY <1>7, <2>3, <2>4 DEF UntilReceives
    <3>2. FirstEnd(buf) \in Nat /\ FirstEnd(buf) <= Len(buf)
      BY <2>4, FirstEndFacts
    <3> QED
      BY <2>1, <3>1, <3>2, LocalReadDone
  <2>5. CASE ~HasMatch(buf)
    <3>1. st' = [st EXCEPT ![s].buf = buf] /\ UNCHANGED <<op, want, saved, reader, writer, delivered>>
      BY <1>7, <2>3, <2>5 DEF UntilReceives
    <3>2. /\ st'[s].init = st[s].init /\ st'[s].isRead = st[s].isRead /\ st'[s].done = st[s].done
          /\ op'[s] = "until" /\ prep'[s] = <<>> /\ reader' = reader /\ writer' = writer
      BY <1>0, <1>1, <2>1, <3>1 DEF Rec
    <3>3. st[s].init /\ ~st[s].done
      BY <1>0, <2>1 DEF Owned, Settled
    <3>4. Unused(s)' /\ Saved(s)' /\ OwnData(s)' /\ Bounded(s)'
      BY <3>2, <3>3 DEF Unused, Saved, OwnData, Bounded
    <3>5. Owned(s)'
      BY <1>0, <2>1, <3>2, <3>3 DEF Owned, Settled
    <3> QED
      BY <3>4, <3>5 DEF Local
  <2> QED
    BY <2>4, <2>5
<1>8. ASSUME NEW e, NEW region \in Seq(0..StreamLen), Commit(s, region, e), op[s] = "read"
      PROVE  Local(s)'
  <2>1. /\ st[s].buf \o region \in Seq(0..StreamLen) /\ Len(region) \in Nat
        /\ Len(st[s].buf \o region) = Len(st[s].buf) + Len(region)
    BY <1>1, ConcatType
  <2>2. PICK buf \in Seq(0..StreamLen) : buf = st[s].buf \o region
    BY <2>1
  <2>3. Len(region) <= Len(buf)
    BY <1>1, <2>1, <2>2
  <2>4. ReadDone(s, Len(region), e, buf) /\ prep'[s] = <<>>
    BY <1>1, <1>8, <2>2 DEF Commit
  <2> QED
    BY <1>8, <2>1, <2>3, <2>4, LocalReadDone
<1>9. ASSUME NEW k \in 1..StreamLen, ReadReceives(s, k) PROVE Local(s)'
  <2>1. got + k <= StreamLen /\ got' = got + k /\ op[s] = "read"
    BY <1>9 DEF ReadReceives
  <2>2. Bytes(got, got + k) \in Seq(0..StreamLen)
    BY <1>0, <2>1, BytesType
  <2>3. PICK region \in Seq(0..StreamLen) : region = prep[s] \o Bytes(got, got + k)
    BY <1>1, <2>2, ConcatType
  <2>5. CASE Len(region) = want[s]
    BY <1>8, <1>9, <2>1, <2>3, <2>5 DEF ReadReceives
  <2>6. CASE Len(region) # want[s]
    <3>1. UNCHANGED <<st, op, want, saved, reader, writer, delivered>>
      BY <1>9, <2>3, <2>6 DEF ReadReceives
    <3> QED
      BY <1>0, <2>1, <3>1 DEF Local, Unused, Saved, OwnData, Bounded, Owned, Settled
  <2> QED
    BY <2>5, <2>6
<1>10. CASE ReadFails(s)
  BY <1>1, <1>8, <1>10 DEF ReadFails
<1>11. ASSUME NEW n \in 0..MaxRequest, WriteDone(s, n) PROVE Local(s)'
  <2>1. PICK y : y = SubSeq(st[s].buf, n + 1, Len(st[s].buf))
    OBVIOUS
  <2>2. /\ st'[s].init = st[s].init /\ st'[s].isRead = st[s].isRead /\ st'[s].done = st[s].done
        /\ op[s] = "write" /\ op'[s] = "finish" /\ prep'[s] = prep[s] /\ delivered'[s] = delivered[s]
        /\ reader' = reader /\ writer' = NoOne
    BY <1>0, <1>1, <1>11, <2>1 DEF WriteDone, Rec
  <2>3. st[s].init /\ ~st[s].done /\ ~st[s].isRead
    BY <1>0, <2>2 DEF Owned, Settled, OwnData
  <2>4. Unused(s)' /\ Saved(s)' /\ OwnData(s)' /\ Bounded(s)'
    BY <1>0, <2>2, <2>3 DEF Unused, Saved, OwnData, Bounded
  <2>5. Owned(s)'
    BY <1>0, <2>2, <2>3 DEF Owned, Settled
  <2> QED
    BY <2>4, <2>5 DEF Local
<1>12. CASE StoreHasDone(s)
  <2>1. /\ st'[s].init = st[s].init /\ st'[s].isRead = st[s].isRead /\ st'[s].done
        /\ st'[s].buf = st[s].buf /\ st'[s].bytes = st[s].bytes
        /\ op[s] = "finish" /\ op'[s] = "none" /\ prep'[s] = prep[s] /\ delivered'[s] = delivered[s]
        /\ reader' = reader /\ writer' = writer
    BY <1>0, <1>1, <1>12 DEF StoreHasDone, Rec
  <2>2. st[s].init /\ ~st[s].done
    BY <1>0, <2>1 DEF Owned, Settled
  <2>3. Unused(s)' /\ Saved(s)' /\ OwnData(s)' /\ Bounded(s)'
    BY <1>0, <2>1, <2>2 DEF Unused, Saved, OwnData, Bounded
  <2>4. Owned(s)'
    BY <1>0, <2>1, <2>2 DEF Owned, Settled
  <2> QED
    BY <2>3, <2>4 DEF Local
<1> QED
  BY <1>3, <1>4, <1>5, <1>6, <1>7, <1>9, <1>10, <1>11, <1>12, LocalUntil, LocalNew
     DEF Call, Handler
-----------------------------------------------------------------------------
(* The stream.  H is what the states hold, g the bytes handed out.         *)
InOrder(h, g) ==
  \A i, j \in DOMAIN h :
    h[i] <= g /\ (i < j /\ h[i] # Out /\ h[j] # Out => h[i] < h[j])
In(h, b)     == \E i \in DOMAIN h : h[i] = b
Exact(H, g)  ==
  /\ \A s \in States : InOrder(H[s], g)
  /\ \A b \in 1..g : \E s \in States : \A t \in States : In(H[t], b) <=> t = s

LEMMA StreamNamed ==
  /\ StreamExact <=> Exact([s \in States |-> Held(s)], got)
  /\ StreamExact' <=> Exact([s \in States |-> Held(s)'], got')
<1>1. StreamExact <=> Exact([s \in States |-> Held(s)], got)
  BY DEF StreamExact, Exact, InOrder, In, Has
<1>2. StreamExact' <=> Exact([s \in States |-> Held(s)'], got')
  BY DEF StreamExact, Exact, InOrder, In, Has
<1> QED
  BY <1>1, <1>2

(* A state that holds only its own data may change it.                     *)
LEMMA ExactOut ==
  ASSUME NEW H, NEW K, NEW g \in Nat, Exact(H, g), NEW s \in States,
         \A t \in States : t # s => K[t] = H[t],
         \A i \in DOMAIN H[s] : H[s][i] = Out, \A i \in DOMAIN K[s] : K[s][i] = Out
  PROVE  Exact(K, g)
<1>1. ASSUME NEW t \in States PROVE InOrder(K[t], g)
  <2>1. CASE t = s
    BY <2>1 DEF InOrder, Out
  <2>2. CASE t # s
    BY <2>2 DEF Exact
  <2> QED
    BY <2>1, <2>2
<1>2. ASSUME NEW b \in 1..g, NEW t \in States PROVE In(K[t], b) <=> In(H[t], b)
  <2>1. b # Out
    BY DEF Out
  <2>2. CASE t = s
    BY <2>1, <2>2 DEF In
  <2>3. CASE t # s
    BY <2>3
  <2> QED
    BY <2>2, <2>3
<1> QED
  BY <1>1, <1>2 DEF Exact

(* The state that owns the direction gets the next bytes at its end.       *)
LEMMA ExactMore ==
  ASSUME NEW H, NEW K, NEW g \in Nat, NEW k \in Nat, Exact(H, g), NEW s \in States,
         \A t \in States : H[t] \in Seq(Nat),
         \A t \in States : t # s => K[t] = H[t],
         NEW x \in Seq(Nat), Len(x) = k, \A i \in 1..k : x[i] = g + i,
         K[s] = H[s] \o x
  PROVE  Exact(K, g + k)
<1>1. PICK h \in Seq(Nat) : h = H[s]
  OBVIOUS
<1>2. /\ h \o x \in Seq(Nat) /\ Len(h \o x) = Len(h) + k /\ Len(h) \in Nat
      /\ \A i \in 1 .. Len(h) + k : (h \o x)[i] = IF i <= Len(h) THEN h[i] ELSE x[i - Len(h)]
  BY ConcatType
<1>3. PICK y \in Seq(Nat) : y = h \o x
  BY <1>2
<1>4. /\ DOMAIN y = 1 .. Len(h) + k /\ DOMAIN h = 1 .. Len(h)
      /\ \A i \in 1 .. Len(h) : y[i] = h[i]
      /\ \A i \in 1 .. k : y[Len(h) + i] = g + i
  <2>1. DOMAIN y = 1 .. Len(h) + k /\ DOMAIN h = 1 .. Len(h)
    BY <1>2, <1>3
  <2>2. \A i \in 1 .. Len(h) : y[i] = h[i]
    BY <1>2, <1>3
  <2>3. ASSUME NEW i \in 1 .. k PROVE y[Len(h) + i] = g + i
    <3>0. PICK n \in Nat : n = Len(h)
      BY <1>2
    <3>1. n + i \in 1 .. n + k /\ ~(n + i <= n) /\ n + i - n = i
      BY <3>0
    <3>2. (h \o x)[n + i] = x[i]
      BY <1>2, <3>0, <3>1
    <3> QED
      BY <1>3, <3>0, <3>2
  <2> QED
    BY <2>1, <2>2, <2>3
<1>5. \A i \in DOMAIN y : i \in 1 .. Len(h) \/ \E m \in 1 .. k : i = Len(h) + m
  <2>1. ASSUME NEW i \in DOMAIN y, ~(i \in 1 .. Len(h)) PROVE \E m \in 1 .. k : i = Len(h) + m
    <3>1. i - Len(h) \in 1 .. k /\ i = Len(h) + (i - Len(h))
      BY <1>2, <1>4, <2>1
    <3> QED
      BY <3>1
  <2> QED
    BY <2>1
<1>6. InOrder(h, g)
  BY <1>1 DEF Exact
<1>7. InOrder(y, g + k)
  <2>1. ASSUME NEW i \in DOMAIN y PROVE y[i] <= g + k
    <3>1. CASE i \in 1 .. Len(h)
      <4>1. y[i] = h[i] /\ h[i] <= g /\ h[i] \in Nat
        BY <1>4, <1>6, <3>1 DEF InOrder
      <4> QED
        BY <4>1
    <3>2. CASE \E m \in 1 .. k : i = Len(h) + m
      BY <1>4, <3>2
    <3> QED
      BY <1>5, <3>1, <3>2
  <2>2. ASSUME NEW i \in DOMAIN y, NEW j \in DOMAIN y, i < j, y[i] # Out, y[j] # Out
        PROVE  y[i] < y[j]
    <3>1. CASE j \in 1 .. Len(h)
      <4>1. i \in 1 .. Len(h)
        BY <1>2, <1>4, <2>2, <3>1
      <4>2. y[i] = h[i] /\ y[j] = h[j]
        BY <1>4, <3>1, <4>1
      <4> QED
        BY <1>4, <1>6, <2>2, <3>1, <4>1, <4>2 DEF InOrder
    <3>2. ASSUME NEW m \in 1 .. k, j = Len(h) + m PROVE y[i] < y[j]
      <4>1. y[j] = g + m
        BY <1>4, <3>2
      <4>2. CASE i \in 1 .. Len(h)
        <5>1. y[i] = h[i] /\ h[i] <= g /\ h[i] \in Nat
          BY <1>4, <1>6, <4>2, SMTT(30) DEF InOrder
        <5> QED
          BY <4>1, <5>1, SMTT(30)
      <4>3. ASSUME NEW l \in 1 .. k, i = Len(h) + l PROVE y[i] < y[j]
        <5>1. y[i] = g + l /\ l < m
          BY <1>2, <1>4, <2>2, <3>2, <4>3
        <5> QED
          BY <4>1, <5>1
      <4> QED
        BY <1>5, <4>2, <4>3
    <3> QED
      BY <1>5, <3>1, <3>2
  <2> QED
    BY <2>1, <2>2 DEF InOrder
<1>8. ASSUME NEW t \in States PROVE InOrder(K[t], g + k)
  <2>1. CASE t = s
    BY <1>1, <1>3, <1>7, <2>1
  <2>2. CASE t # s
    <3>1. PICK h2 \in Seq(Nat) : h2 = H[t]
      OBVIOUS
    <3>2. InOrder(h2, g)
      BY <3>1 DEF Exact
    <3>3. \A i \in DOMAIN h2 : h2[i] \in Nat
      OBVIOUS
    <3>4. InOrder(h2, g + k)
      BY <3>2, <3>3 DEF InOrder
    <3> QED
      BY <2>2, <3>1, <3>4
  <2> QED
    BY <2>1, <2>2
<1>9. ASSUME NEW b \in 1 .. g + k PROVE \E u \in States : \A t \in States : In(K[t], b) <=> t = u
  <2>1. CASE b <= g
    <3>1. PICK u \in States : \A t \in States : In(H[t], b) <=> t = u
      BY <2>1 DEF Exact
    <3>2. ASSUME NEW t \in States PROVE In(K[t], b) <=> In(H[t], b)
      <4>1. CASE t # s
        BY <4>1
      <4>2. CASE t = s
        <5>1. In(y, b) => In(h, b)
          <6>1. ASSUME NEW i \in DOMAIN y, y[i] = b PROVE In(h, b)
            <7>1. i \in 1 .. Len(h)
              <8>1. ASSUME NEW m \in 1 .. k, i = Len(h) + m PROVE FALSE
                <9>1. b = g + m
                  BY <1>4, <6>1, <8>1
                <9> QED
                  BY <2>1, <9>1
              <8> QED
                BY <1>5, <8>1
            <7> QED
              BY <1>4, <6>1, <7>1 DEF In
          <6> QED
            BY <6>1 DEF In
        <5>2. In(h, b) => In(y, b)
          BY <1>2, <1>4 DEF In
        <5> QED
          BY <1>1, <1>3, <4>2, <5>1, <5>2
      <4> QED
        BY <4>1, <4>2
    <3> QED
      BY <3>1, <3>2
  <2>2. CASE b > g
    <3>1. b - g \in 1 .. k /\ g + (b - g) = b
      BY <2>2
    <3>2. y[Len(h) + (b - g)] = b /\ Len(h) + (b - g) \in DOMAIN y
      <4>1. PICK m \in 1 .. k : m = b - g /\ g + m = b
        BY <3>1
      <4>2. PICK n \in Nat : n = Len(h)
        BY <1>2
      <4>3. n + m \in 1 .. n + k
        OBVIOUS
      <4> QED
        BY <1>4, <4>1, <4>2, <4>3
    <3>3. In(K[s], b)
      BY <1>1, <1>3, <3>2 DEF In
    <3>4. ASSUME NEW t \in States, t # s PROVE ~In(K[t], b)
      <4>1. \A i \in DOMAIN H[t] : H[t][i] <= g /\ H[t][i] \in Nat
        <5>1. PICK h2 \in Seq(Nat) : h2 = H[t]
          OBVIOUS
        <5>2. \A i \in DOMAIN h2 : h2[i] \in Nat
          OBVIOUS
        <5> QED
          BY <5>1, <5>2 DEF Exact, InOrder
      <4>2. \A i \in DOMAIN H[t] : H[t][i] # b
        BY <2>2, <4>1
      <4>3. K[t] = H[t]
        BY <3>4
      <4> QED
        BY <4>2, <4>3 DEF In
    <3> QED
      BY <3>3, <3>4
  <2> QED
    BY <2>1, <2>2
<1> QED
  BY <1>8, <1>9 DEF Exact
-----------------------------------------------------------------------------
(* Moving bytes between the parts of a state.                              *)
(* Concatenation as an operator of its own: below, only these laws matter. *)
Join(a, b) == a \o b

LEMMA TakeMoves ==
  ASSUME NEW S, NEW d \in Seq(S), NEW q \in Seq(S), NEW p \in Seq(S), NEW n \in Nat, n <= Len(q)
  PROVE  Join(Join(Join(d, SubSeq(q, 1, n)), SubSeq(q, n + 1, Len(q))), p) = Join(Join(d, q), p)
<1>1. Len(q) \in Nat
  OBVIOUS
<1>2. 1 \in 1 .. Len(q) + 1 /\ n \in 1 - 1 .. Len(q) /\ Len(q) \in n .. Len(q)
  BY <1>1
<1>3. SubSeq(q, 1, n) \o SubSeq(q, n + 1, Len(q)) = SubSeq(q, 1, Len(q))
  BY <1>2, ConcatAdjacentSubSeq
<1>4. SubSeq(q, 1, Len(q)) = q
  BY SubSeqFull
<1>5. PICK x \in Seq(S) : x = SubSeq(q, 1, n)
  BY SubSeqType
<1>6. PICK y \in Seq(S) : y = SubSeq(q, n + 1, Len(q))
  BY SubSeqType
<1>7. (d \o x) \o y = d \o (x \o y)
  BY ConcatAssociative, SMTT(30)
<1> QED
  BY <1>3, <1>4, <1>5, <1>6, <1>7 DEF Join

LEMMA JoinLaws ==
  ASSUME NEW S, NEW a \in Seq(S), NEW b \in Seq(S), NEW c \in Seq(S)
  PROVE  /\ Join(Join(a, b), c) = Join(a, Join(b, c))
         /\ Join(a, b) \in Seq(S) /\ Join(a, <<>>) = a
<1>1. (a \o b) \o c = a \o (b \o c)
  BY ConcatAssociative
<1>2. a \o b \in Seq(S) /\ a \o <<>> = a
  BY ConcatType, ConcatEmptySeq
<1> QED
  BY <1>1, <1>2 DEF Join

(* commit of x when nothing is prepared, commit of p and x when p is, and  *)
(* x received into the prepared region.                                    *)
LEMMA CommitMoves ==
  ASSUME NEW S, NEW d \in Seq(S), NEW q \in Seq(S), NEW p \in Seq(S), NEW x \in Seq(S)
  PROVE  /\ Join(Join(d, Join(q, x)), <<>>) = Join(Join(Join(d, q), <<>>), x)
         /\ Join(Join(d, Join(q, Join(p, x))), <<>>) = Join(Join(Join(d, q), p), x)
         /\ Join(Join(d, q), Join(p, x)) = Join(Join(Join(d, q), p), x)
         /\ Join(Join(d, Join(q, p)), <<>>) = Join(Join(d, q), p)
<1>1. /\ Join(d, q) \in Seq(S) /\ Join(p, x) \in Seq(S) /\ Join(q, x) \in Seq(S) /\ Join(q, p) \in Seq(S)
      /\ Join(d, Join(q, x)) = Join(Join(d, q), x) /\ Join(d, Join(q, p)) = Join(Join(d, q), p)
  BY JoinLaws
<1>2. /\ Join(d, Join(q, x)) \in Seq(S) /\ Join(d, Join(q, p)) \in Seq(S)
      /\ Join(Join(d, q), <<>>) = Join(d, q)
      /\ Join(d, Join(q, Join(p, x))) = Join(Join(d, q), Join(p, x))
      /\ Join(Join(d, q), Join(p, x)) \in Seq(S)
  BY <1>1, JoinLaws
<1>3. Join(Join(d, q), Join(p, x)) = Join(Join(Join(d, q), p), x)
  BY <1>1, JoinLaws
<1>4. \A y \in Seq(S) : Join(y, <<>>) = y
  BY JoinLaws
<1> QED
  BY <1>1, <1>2, <1>3, <1>4

AllOut(h) == \A i \in DOMAIN h : h[i] = Out

LEMMA OutMoves ==
  ASSUME NEW S, NEW q \in Seq(S), AllOut(q)
  PROVE  AllOut((<<>> \o q) \o <<>>)
BY ConcatEmptySeq

LEMMA HeldType ==
  ASSUME TypeOK, NEW s \in States PROVE Held(s) \in Seq(0..StreamLen) /\ Held(s) \in Seq(Nat)
<1>1. /\ st[s].buf \in Seq(0..StreamLen) /\ prep[s] \in Seq(0..StreamLen)
      /\ delivered[s] \in Seq(0..StreamLen)
  BY StateTypes
<1>2. PICK y \in Seq(0..StreamLen) : y = delivered[s] \o st[s].buf
  BY <1>1, ConcatType
<1>3. y \o prep[s] \in Seq(0..StreamLen)
  BY <1>1, ConcatType
<1>4. PICK h \in Seq(0..StreamLen) : h = Held(s)
  BY <1>2, <1>3 DEF Held
<1>5. h \in Seq(Nat)
  <2>1. \A i \in 1 .. Len(h) : h[i] \in Nat
    BY AsyncStateAssumption
  <2> QED
    BY <2>1
<1> QED
  BY <1>4, <1>5
-----------------------------------------------------------------------------
(* What a step does to the state it is about, as the stream sees it.       *)
Kind(s) ==
  \/ Held(s)' = Held(s) /\ got' = got
  \/ AllOut(Held(s)) /\ AllOut(Held(s)') /\ got' = got
  \/ \E k \in 1..StreamLen :
       got + k <= StreamLen /\ got' = got + k /\ Held(s)' = Held(s) \o Bytes(got, got + k)

LEMMA HeldJoins ==
  ASSUME NEW s \in States
  PROVE  /\ Held(s) = Join(Join(delivered[s], st[s].buf), prep[s])
         /\ Held(s)' = Join(Join(delivered'[s], st'[s].buf), prep'[s])
BY DEF Held, Join

LEMMA KindTake ==
  ASSUME IInv, NEW s \in States, NEW n \in Nat, n <= Len(st[s].buf), NEW b, Take(s, n),
         st' = [st EXCEPT ![s].buf = SubSeq(st[s].buf, n + 1, Len(st[s].buf)), ![s].bytes = b]
  PROVE  Kind(s)
<1>1. /\ st \in [States -> Rec] /\ st[s] \in Rec /\ delivered \in [States -> Seq(0..StreamLen)]
      /\ st[s].buf \in Seq(0..StreamLen) /\ delivered[s] \in Seq(0..StreamLen) /\ prep[s] \in Seq(0..StreamLen)
  BY TypesNamed, StateTypes DEF IInv, Types
<1>2. PICK y : y = SubSeq(st[s].buf, n + 1, Len(st[s].buf))
  OBVIOUS
<1>3. st'[s].buf = y
  BY <1>1, <1>2 DEF Rec
<1>4. delivered'[s] = delivered[s] \o SubSeq(st[s].buf, 1, n) /\ prep'[s] = prep[s] /\ got' = got
  BY <1>1 DEF Take
<1>5. Held(s)' = Join(Join(Join(delivered[s], SubSeq(st[s].buf, 1, n)),
                           SubSeq(st[s].buf, n + 1, Len(st[s].buf))), prep[s])
  BY <1>2, <1>3, <1>4, HeldJoins DEF Join
<1>6. Held(s)' = Join(Join(delivered[s], st[s].buf), prep[s])
  <2>0. PICK Z : Z = 0..StreamLen
    OBVIOUS
  <2>1. PICK d \in Seq(Z), q \in Seq(Z), p \in Seq(Z) :
          d = delivered[s] /\ q = st[s].buf /\ p = prep[s]
    BY <1>1, <2>0
  <2>2. n <= Len(q)
    BY <2>1
  <2>3. Join(Join(Join(d, SubSeq(q, 1, n)), SubSeq(q, n + 1, Len(q))), p) = Join(Join(d, q), p)
    BY <2>2, TakeMoves
  <2> QED
    BY <1>5, <2>1, <2>3
<1> QED
  BY <1>4, <1>6, HeldJoins DEF Kind

LEMMA KindDone ==
  ASSUME IInv, NEW s \in States, NEW n, NEW e, NEW buf, ReadDone(s, n, e, buf)
  PROVE  st'[s].buf = buf /\ delivered'[s] = delivered[s]
<1>1. st \in [States -> Rec] /\ st[s] \in Rec
  BY TypesNamed DEF IInv, Types
<1> QED
  BY <1>1 DEF ReadDone, Rec

LEMMA KindStep ==
  ASSUME IInv, NEW s \in States, Call(s) \/ Handler(s) PROVE Kind(s)
<1>0. /\ Types /\ TypeOK
      /\ st \in [States -> Rec] /\ op \in [States -> {"none", "start", "until", "read", "write", "finish"}]
      /\ prep \in [States -> Seq(1..StreamLen)]
      /\ Unused(s) /\ Saved(s) /\ OwnData(s) /\ Bounded(s) /\ Owned(s)
  BY TypesNamed DEF IInv, Types, Local
<1>1. /\ st[s] \in Rec /\ st[s].buf \in Seq(0..StreamLen) /\ Len(st[s].buf) \in Nat
      /\ st[s].bytes \in Nat /\ prep[s] \in Seq(0..StreamLen) /\ delivered[s] \in Seq(0..StreamLen)
  BY <1>0, StateTypes
<1>1z. PICK Z : Z = 0..StreamLen
  OBVIOUS
<1>1a. PICK d \in Seq(Z), q \in Seq(Z), p \in Seq(Z) :
          d = delivered[s] /\ q = st[s].buf /\ p = prep[s]
  BY <1>1, <1>1z
<1>1b. Held(s) = Join(Join(d, q), p)
  BY <1>1a, HeldJoins
<1>2. ASSUME st'[s].buf = st[s].buf, prep'[s] = prep[s], delivered'[s] = delivered[s], got' = got
      PROVE  Kind(s)
  BY <1>2 DEF Kind, Held
<1>3. CASE ReadUntil(s) \/ UntilStarted(s) \/ UntilNotStarted(s) \/ StoreHasDone(s)
  <2>1. st'[s].buf = st[s].buf
    BY <1>0, <1>1, <1>3 DEF ReadUntil, UntilStarted, UntilNotStarted, StoreHasDone, Rec
  <2>2. prep' = prep /\ delivered' = delivered /\ got' = got
    BY <1>3 DEF ReadUntil, UntilStarted, UntilNotStarted, StoreHasDone
  <2> QED
    BY <1>2, <2>1, <2>2
<1>4. ASSUME NEW n \in 1..MaxRequest, Read(s, n) PROVE Kind(s)
  <2>1. st'[s].buf = st[s].buf /\ prep' = prep /\ delivered' = delivered /\ got' = got
    BY <1>0, <1>1, <1>4 DEF Read, Rec
  <2> QED
    BY <1>2, <2>1
<1>5. ASSUME NEW n \in 1..MaxRequest, Write(s, n) PROVE Kind(s)
  <2>1. PICK b \in Seq(Nat) : b = [i \in 1..n |-> Out] /\ AllOut(b)
    <3>1. [i \in 1..n |-> Out] \in Seq(Nat)
      BY AsyncStateAssumption, IsASeq DEF Out
    <3> QED
      BY <3>1 DEF AllOut
  <2>2. st'[s].buf = b /\ prep' = prep /\ delivered' = delivered /\ got' = got /\ ~st[s].init
    BY <1>0, <1>1, <1>5, <2>1 DEF Write, Rec
  <2>3. st[s].buf = <<>> /\ delivered[s] = <<>> /\ prep[s] = <<>>
    BY <1>0, <2>2 DEF Unused, Bounded, Owned, Settled
  <2>4. AllOut((<<>> \o <<>>) \o <<>>) /\ AllOut((<<>> \o b) \o <<>>)
    <3>1. <<>> \in Seq(Nat) /\ AllOut(<<>>)
      BY DEF AllOut
    <3> QED
      BY <2>1, <3>1, OutMoves
  <2> QED
    BY <2>2, <2>3, <2>4 DEF Kind, Held
<1>6. CASE GetResult(s)
  <2>1. st[s].bytes <= Len(st[s].buf) /\ st[s].isRead /\ st[s].done
    BY <1>0, <1>6 DEF GetResult, Bounded
  <2>2. PICK n \in Nat : n = st[s].bytes
    BY <1>1
  <2>3. Take(s, n) /\ st' = [st EXCEPT ![s].buf = SubSeq(st[s].buf, n + 1, Len(st[s].buf)), ![s].bytes = 0]
    BY <1>6, <2>2 DEF GetResult
  <2> QED
    BY <2>1, <2>2, <2>3, KindTake
<1>7. ASSUME NEW m \in 1..MaxRequest, GetBuffer(s, m) PROVE Kind(s)
  <2>1. PICK n \in Nat : n = IF m < Len(st[s].buf) THEN m ELSE Len(st[s].buf)
    BY <1>1, AsyncStateAssumption
  <2>2. n <= Len(st[s].buf)
    BY <1>1, <2>1, AsyncStateAssumption
  <2>3. PICK b : b = IF st[s].bytes > n THEN st[s].bytes - n ELSE 0
    OBVIOUS
  <2>4. Take(s, n) /\ st' = [st EXCEPT ![s].buf = SubSeq(st[s].buf, n + 1, Len(st[s].buf)), ![s].bytes = b]
    BY <1>7, <2>1, <2>3 DEF GetBuffer
  <2> QED
    BY <2>2, <2>4, KindTake
<1>8. CASE UntilMatched(s) \/ UntilFails(s)
  <2>1. st'[s].buf = st[s].buf /\ delivered'[s] = delivered[s]
    BY <1>8, KindDone DEF UntilMatched, UntilFails
  <2>2. prep' = prep /\ got' = got
    BY <1>8 DEF UntilMatched, UntilFails
  <2> QED
    BY <1>2, <2>1, <2>2
<1>9. ASSUME NEW k \in 1..StreamLen, UntilReceives(s, k) PROVE Kind(s)
  <2>1. got + k <= StreamLen /\ got' = got + k /\ prep' = prep /\ prep[s] = <<>>
    BY <1>0, <1>9 DEF UntilReceives, Bounded
  <2>2. PICK x \in Seq(Z) : x = Bytes(got, got + k)
    BY <1>0, <1>1z, <2>1, BytesType
  <2>3. PICK buf : buf = st[s].buf \o x
    OBVIOUS
  <2>4. st'[s].buf = buf /\ delivered'[s] = delivered[s]
    <3>1. CASE HasMatch(buf)
      BY <1>9, <2>2, <2>3, <3>1, KindDone DEF UntilReceives
    <3>2. CASE ~HasMatch(buf)
      <4>1. st' = [st EXCEPT ![s].buf = buf] /\ delivered' = delivered
        BY <1>9, <2>2, <2>3, <3>2 DEF UntilReceives
      <4> QED
        BY <1>0, <1>1, <4>1 DEF Rec
    <3> QED
      BY <3>1, <3>2
  <2>5. Held(s)' = Join(Join(d, Join(q, x)), <<>>) /\ p = <<>>
    <3>1. buf = Join(q, x)
      BY <1>1a, <2>3 DEF Join
    <3> QED
      BY <1>1a, <2>1, <2>4, <3>1, HeldJoins
  <2>6. Held(s)' = Join(Held(s), x)
    <3>1. Join(Join(d, Join(q, x)), <<>>) = Join(Join(Join(d, q), <<>>), x)
      BY CommitMoves
    <3> QED
      BY <1>1b, <2>5, <3>1
  <2> QED
    BY <2>1, <2>2, <2>6 DEF Kind, Join
<1>10. ASSUME NEW region, NEW e, Commit(s, region, e)
       PROVE  Held(s)' = Join(Join(d, Join(q, region)), <<>>)
  <2>1. st'[s].buf = st[s].buf \o region /\ delivered'[s] = delivered[s]
    BY <1>10, KindDone DEF Commit
  <2>2. prep'[s] = <<>>
    BY <1>0, <1>10 DEF Commit
  <2>3. st'[s].buf = Join(q, region)
    BY <1>1a, <2>1 DEF Join
  <2> QED
    BY <1>1a, <2>1, <2>2, <2>3, HeldJoins
<1>11. ASSUME NEW k \in 1..StreamLen, ReadReceives(s, k) PROVE Kind(s)
  <2>1. got + k <= StreamLen /\ got' = got + k
    BY <1>11 DEF ReadReceives
  <2>2. PICK x \in Seq(Z) : x = Bytes(got, got + k)
    BY <1>0, <1>1z, <2>1, BytesType
  <2>3. PICK region : region = prep[s] \o x
    OBVIOUS
  <2>4. region = Join(p, x)
    BY <1>1a, <2>3 DEF Join
  <2>5. /\ Join(Join(d, Join(q, Join(p, x))), <<>>) = Join(Join(Join(d, q), p), x)
        /\ Join(Join(d, q), Join(p, x)) = Join(Join(Join(d, q), p), x)
    BY CommitMoves
  <2>6. Held(s)' = Join(Held(s), x)
    <3>1. CASE Len(region) = want[s]
      <4>1. Commit(s, region, "ok")
        BY <1>11, <2>2, <2>3, <3>1 DEF ReadReceives
      <4> QED
        BY <1>1b, <1>10, <2>4, <2>5, <4>1
    <3>2. CASE Len(region) # want[s]
      <4>1. prep' = [prep EXCEPT ![s] = region] /\ st' = st /\ delivered' = delivered
        BY <1>11, <2>2, <2>3, <3>2 DEF ReadReceives
      <4>2. prep'[s] = region
        BY <1>0, <4>1
      <4>3. Held(s)' = Join(Join(d, q), Join(p, x))
        BY <1>1a, <2>4, <4>1, <4>2, HeldJoins
      <4> QED
        BY <1>1b, <2>5, <4>3
    <3> QED
      BY <3>1, <3>2
  <2> QED
    BY <2>1, <2>2, <2>6 DEF Kind, Join
<1>12. CASE ReadFails(s)
  <2>1. Commit(s, p, "error") /\ got' = got
    BY <1>1a, <1>12 DEF ReadFails
  <2>2. Held(s)' = Join(Join(d, Join(q, p)), <<>>)
    BY <1>10, <2>1
  <2>3. Join(Join(d, Join(q, p)), <<>>) = Join(Join(d, q), p)
    BY CommitMoves
  <2> QED
    BY <1>1b, <2>1, <2>2, <2>3 DEF Kind
<1>13. ASSUME NEW n \in 0..MaxRequest, WriteDone(s, n) PROVE Kind(s)
  <2>1. /\ op[s] = "write" /\ n \in Nat /\ n <= Len(st[s].buf)
        /\ prep' = prep /\ delivered' = delivered /\ got' = got
    BY <1>13, AsyncStateAssumption DEF WriteDone
  <2>2. delivered[s] = <<>> /\ prep[s] = <<>> /\ AllOut(st[s].buf)
    BY <1>0, <2>1 DEF OwnData, Bounded, AllOut
  <2>3. PICK w \in Seq(0..StreamLen) : w = st[s].buf
    BY <1>1
  <2>4. PICK v \in Seq(0..StreamLen) : v = SubSeq(w, n + 1, Len(w)) /\ AllOut(v)
    <3>0. n <= Len(w)
      BY <2>1, <2>3
    <3>1. /\ SubSeq(w, n + 1, Len(w)) \in Seq(0..StreamLen)
          /\ Len(SubSeq(w, n + 1, Len(w))) = Len(w) - n
          /\ \A i \in 1 .. Len(w) - n : SubSeq(w, n + 1, Len(w))[i] = w[n + i]
      BY <2>1, <3>0, SubSeqType
    <3>2. PICK v \in Seq(0..StreamLen) : v = SubSeq(w, n + 1, Len(w))
      BY <3>1
    <3>3. ASSUME NEW i \in DOMAIN v PROVE v[i] = Out
      <4>1. i \in 1 .. Len(w) - n /\ Len(w) \in Nat
        BY <3>1, <3>2
      <4>2. n + i \in 1 .. Len(w)
        BY <2>1, <4>1
      <4>3. w[n + i] = Out
        BY <2>2, <2>3, <4>2 DEF AllOut
      <4> QED
        BY <3>1, <3>2, <4>1, <4>3
    <3> QED
      BY <3>2, <3>3 DEF AllOut
  <2>5. st'[s].buf = v
    BY <1>0, <1>1, <1>13, <2>3, <2>4 DEF WriteDone, Rec
  <2>6. AllOut((<<>> \o w) \o <<>>) /\ AllOut((<<>> \o v) \o <<>>)
    BY <2>2, <2>3, <2>4, OutMoves
  <2> QED
    BY <2>1, <2>2, <2>3, <2>5, <2>6 DEF Kind, Held
<1> QED
  BY <1>3, <1>4, <1>5, <1>6, <1>7, <1>8, <1>9, <1>11, <1>12, <1>13 DEF Call, Handler

LEMMA StreamStep ==
  ASSUME IInv, NEW s \in States, Call(s) \/ Handler(s) PROVE StreamExact'
<1>0. TypeOK /\ TypeOK' /\ got \in Nat
  BY TypeStep, StateTypes DEF IInv
<1>1. PICK H : H = [t \in States |-> Held(t)]
  OBVIOUS
<1>2. PICK K : K = [t \in States |-> Held(t)']
  OBVIOUS
<1>3. Exact(H, got)
  BY <1>1, StreamNamed DEF IInv
<1>4. SUFFICES Exact(K, got')
  BY <1>2, StreamNamed
<1>5. \A t \in States : t # s => K[t] = H[t]
  <2>1. ASSUME NEW t \in States, t # s PROVE Held(t)' = Held(t)
    <3>1. Same(t)
      BY <1>0, <2>1, Others, TypesNamed
    <3> QED
      BY <3>1 DEF Same, Held
  <2> QED
    BY <1>1, <1>2, <2>1
<1>6. K[s] = Held(s)' /\ H[s] = Held(s)
  BY <1>1, <1>2
<1>7. Kind(s)
  BY KindStep
<1>8. CASE Held(s)' = Held(s) /\ got' = got
  <2>1. \A t \in States : K[t] = H[t]
    BY <1>5, <1>6, <1>8
  <2> QED
    BY <1>3, <1>8, <2>1 DEF Exact
<1>9. CASE AllOut(Held(s)) /\ AllOut(Held(s)') /\ got' = got
  <2>1. (\A i \in DOMAIN H[s] : H[s][i] = Out) /\ (\A i \in DOMAIN K[s] : K[s][i] = Out)
    BY <1>6, <1>9 DEF AllOut
  <2>2. Exact(K, got)
    BY <1>0, <1>3, <1>5, <2>1, ExactOut
  <2> QED
    BY <1>9, <2>2
<1>10. ASSUME NEW k \in 1..StreamLen, got + k <= StreamLen, got' = got + k,
              Held(s)' = Held(s) \o Bytes(got, got + k)
       PROVE  Exact(K, got')
  <2>1. /\ Bytes(got, got + k) \in Seq(0..StreamLen) /\ Len(Bytes(got, got + k)) = k
        /\ \A i \in 1..k : Bytes(got, got + k)[i] = got + i
    BY <1>0, <1>10, BytesType
  <2>2. PICK y \in Seq(0..StreamLen) : y = Bytes(got, got + k)
    BY <2>1
  <2>3. y \in Seq(Nat)
    <3>1. \A i \in 1 .. Len(y) : y[i] \in Nat
      BY AsyncStateAssumption
    <3> QED
      BY <3>1
  <2>4. PICK x \in Seq(Nat) : x = Bytes(got, got + k)
    BY <2>2, <2>3
  <2>5. Len(x) = k /\ (\A i \in 1..k : x[i] = got + i) /\ K[s] = H[s] \o x /\ k \in Nat
    BY <1>6, <1>10, <2>1, <2>4, AsyncStateAssumption
  <2>6. \A t \in States : H[t] \in Seq(Nat)
    BY <1>0, <1>1, HeldType
  <2>7. Exact(K, got + k)
    BY <1>0, <1>3, <1>5, <2>5, <2>6, ExactMore
  <2> QED
    BY <1>10, <2>7
<1> QED
  BY <1>7, <1>8, <1>9, <1>10 DEF Kind
-----------------------------------------------------------------------------
LEMMA InitInv == Init => IInv
<1> SUFFICES ASSUME Init PROVE IInv
  OBVIOUS
<1>1. Fresh \in Rec
  <2>1. <<>> \in Seq(0..StreamLen)
    OBVIOUS
  <2> QED
    BY <2>1 DEF Fresh, Rec
<1>2. TypeOK
  <2>1. <<>> \in Seq(0..StreamLen) /\ <<>> \in Seq(1..StreamLen) /\ 0 \in 0..StreamLen
    BY AsyncStateAssumption
  <2>2. Types
    BY <1>1, <2>1, FreshFlags DEF Init, Types
  <2> QED
    BY <2>2, TypesNamed
<1>3. ASSUME NEW s \in States
      PROVE  /\ st[s] = Fresh /\ op[s] = "none" /\ prep[s] = <<>> /\ delivered[s] = <<>>
             /\ reader # s /\ writer # s
  BY NoOneAssumption DEF Init
<1>4. ASSUME NEW s \in States PROVE Local(s)
  <2>1. ~st[s].init /\ ~st[s].isRead /\ ~st[s].done /\ st[s].buf = <<>>
    BY <1>3 DEF Fresh
  <2> QED
    BY <1>3, <2>1 DEF Local, Unused, Saved, OwnData, Bounded, Owned, Settled
<1>5. StreamExact
  <2>1. ASSUME NEW s \in States PROVE DOMAIN Held(s) = {}
    <3>1. st[s].buf = <<>>
      BY <1>3 DEF Fresh
    <3>2. Held(s) = (<<>> \o <<>>) \o <<>>
      BY <1>3, <3>1 DEF Held
    <3>3. (<<>> \o <<>>) \o <<>> = <<>>
      <4>1. <<>> \in Seq(Nat)
        OBVIOUS
      <4> QED
        BY <4>1, ConcatEmptySeq
    <3> QED
      BY <3>2, <3>3
  <2>2. 1..got = {}
    BY DEF Init
  <2> QED
    BY <2>1, <2>2 DEF StreamExact
<1> QED
  BY <1>2, <1>4, <1>5 DEF IInv

LEMMA NextInv == IInv /\ [Next]_vars => IInv'
<1> SUFFICES ASSUME IInv, [Next]_vars PROVE IInv'
  OBVIOUS
<1>1. CASE Next
  <2>1. PICK s \in States : Call(s) \/ Handler(s)
    BY <1>1 DEF Next
  <2>2. TypeOK' /\ StreamExact'
    BY <2>1, TypeStep, StreamStep
  <2>3. ASSUME NEW t \in States PROVE Local(t)'
    BY <2>1, LocalSelf, LocalOther
  <2> QED
    BY <2>2, <2>3 DEF IInv
<1>2. CASE UNCHANGED vars
  <2>1. TypeOK'
    BY <1>2 DEF IInv, TypeOK, vars
  <2>2. ASSUME NEW t \in States PROVE Local(t)'
    <3>1. Local(t)
      BY DEF IInv
    <3> QED
      BY <1>2, <3>1 DEF vars, Local, Unused, Saved, OwnData, Bounded, Owned, Settled
  <2>3. StreamExact'
    <3>1. \A t \in States : Held(t)' = Held(t)
      BY <1>2 DEF Held, vars
    <3>2. [t \in States |-> Held(t)'] = [t \in States |-> Held(t)] /\ got' = got
      BY <1>2, <3>1 DEF vars
    <3> QED
      BY <3>2, StreamNamed DEF IInv
  <2> QED
    BY <2>1, <2>2, <2>3 DEF IInv
<1> QED
  BY <1>1, <1>2

(* The inductive invariant holds in every state the three calls and their  *)
(* handlers (network.cpp:766-1030) can reach.                              *)
THEOREM AsyncInvariant == Spec => []IInv
BY InitInv, NextInv, PTL DEF Spec

(* read_until, read, get_result and get_buffer lose no byte of the stream, *)
(* give none twice and none out of order (network.cpp:766-794, 960-1024),  *)
(* for any number of states, any stream and any pattern.                   *)
THEOREM StreamKept == Spec => []StreamExact
<1>1. IInv => StreamExact
  BY DEF IInv
<1> QED
  BY <1>1, AsyncInvariant, PTL

(* get_result never uses a bytes_transferred past the end of the buffer    *)
(* (network.cpp:774), however get_buffer and failed read_untils are mixed. *)
THEOREM ResultsBounded == Spec => []ResultInBounds
<1>1. IInv => ResultInBounds
  BY DEF IInv, Local, Bounded, ResultInBounds
<1> QED
  BY <1>1, AsyncInvariant, PTL

(* A state that is not done has an operation under way, and an operation   *)
(* has its direction of the socket to itself (network.cpp:832, 964-1030).  *)
THEOREM OperationsOwned == Spec => []PendingOwned
<1>1. IInv => PendingOwned
  BY DEF IInv, Local, Owned, PendingOwned
<1> QED
  BY <1>1, AsyncInvariant, PTL
=============================================================================
