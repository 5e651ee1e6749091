--------------------------- MODULE ConfigPathProofs ---------------------------
(***************************************************************************)
(* Proofs about ConfigPath: what its operators on packages, transmissions  *)
(* and cells compute, and the invariant its actions keep.  StartupProofs   *)
(* derives the theorems on the whole of Startup from it.                   *)
(***************************************************************************)
EXTENDS ConfigPath, SequenceTheorems, TLAPS

(* What the reader took for a transmission cannot pass the check.          *)
Spoilt ==
  /\ rx.st = "data"
  /\ \/ rx.hash.tag # "hash"
     \/ \E i \in 1..Len(rx.data) : rx.data[i].tag # "data"

(* The reader has the first k - 1 lines of the transmission of c.          *)
Synced(c, k) ==
  /\ rx.st = "data" /\ rx.hash = Line("hash", Text[c]) /\ Len(rx.data) = k - 3
  /\ \A i \in 1..(k - 3) : rx.data[i] = Line("data", <<Text[c][i]>>)

(* The lines of c from the k-th on are still to come.                      *)
Coming(c, k) ==
  /\ Len(tx) = Len(Text[c]) + 4 - k
  /\ \A j \in 1..Len(tx) : tx[j] = Lines(Text[c])[k - 1 + j]

(* Where the reader is in an undamaged transmission: in step with it,      *)
(* unless the remains of a damaged one spoil it, which cannot be when one  *)
(* undamaged transmission has gone before.                                 *)
Follows(c, k) ==
  /\ k = 1 => clean = 0 \/ rx.st = "begin"
  /\ k = 2 => rx.st = "hash" \/ (clean = 0 /\ Spoilt)
  /\ k >= 3 => Synced(c, k) \/ (clean = 0 /\ Spoilt)

LineInv ==
  /\ phase \in {"boot", "main"} => rx = Idle /\ tx = <<>> /\ clean = 0
  /\ phase = "gs0" =>
       /\ clean \in {0, 1}
       /\ tx = <<>> => clean = 0 \/ rx.st = "begin"
       /\ tx # <<>> =>
            /\ hurt => clean = 0
            /\ \E c \in Sent : \E k \in 1..(Len(Text[c]) + 3) :
                 Coming(c, k) /\ (hurt \/ Follows(c, k))

(* Whatever is taken for a hash is the text of a configuration given since *)
(* main last started: on the line, at the reader, and in the on-chip RAM.  *)
IsGiven(t) == \E c \in given : t = Text[c]

GivenInv ==
  /\ rx.hash.tag = "hash" => IsGiven(rx.hash.val)
  /\ \A j \in 1..Len(tx) : tx[j].tag = "hash" => IsGiven(tx[j].val)
  /\ phase = "gs0" => ocram = Erased
  /\ file = NoFile /\ ocram.hash \in Texts => IsGiven(ocram.hash)
  /\ saving.at # "none" => IsGiven(saving.text)

(* How far the upgrade handler is with saving.                             *)
Begun(t)  == ocram.hash = t /\ Len(t) + 1 <= MemSize
Copied(t) == Begun(t) /\ \A i \in 1..Len(t) : ocram.cells[i] = t[i]
Stored(t) == Copied(t) /\ ocram.cells[Len(t) + 1] = 0

SaveInv ==
  /\ saving.at # "none" => phase \in {"main", "dead"} /\ Fits(saving.text)
  /\ saving.at = "text" => Begun(saving.text)
  /\ saving.at = "zero" => Copied(saving.text)
  /\ saving.at = "saved" => Stored(saving.text)
  /\ saved # <<>> /\ file = NoFile =>
       /\ phase # "gs0" /\ saved \in Texts
       /\ phase = "boot" => Stored(saved)
       /\ phase = "main" => text = saved

ConfigInv == ConfigTypeOK /\ LineInv /\ GivenInv /\ SaveInv

-----------------------------------------------------------------------------
(* Texts, lines and fields.                                                *)

LEMMA TextType ==
  ASSUME NEW c \in Configs
  PROVE  /\ Text[c] \in Seq(Nat \ {0}) /\ Text[c] \in Seq(Nat) /\ Text[c] \in Seq(Int)
         /\ Len(Text[c]) \in Nat
         /\ \A i \in 1..Len(Text[c]) : Text[c][i] \in Nat \ {0}
<1>1. Text[c] \in Seq(Nat \ {0})
  BY ConfigAssumption
<1>2. QED
  BY <1>1, SeqMonotonic, LenProperties, ElementOfSeq

LEMMA LineIsLine ==
  ASSUME NEW tag \in {"begin", "hash", "data", "end", "noise", "none"}, NEW v \in Seq(Int)
  PROVE  Line(tag, v) \in LineType /\ Line(tag, v).tag = tag /\ Line(tag, v).val = v
  BY DEF Line, LineType

LEMMA ShortSeqs ==
  ASSUME NEW S, NEW a \in S, NEW b \in S
  PROVE  /\ <<>> \in Seq(S) /\ <<a>> \in Seq(S) /\ Len(<<a>>) = 1 /\ <<a>>[1] = a
         /\ <<a, b>> \in Seq(S) /\ Len(<<a, b>>) = 2 /\ <<a, b>>[1] = a /\ <<a, b>>[2] = b
  OBVIOUS

(* What gen_config_text.sh sends, line by line.                            *)
LEMMA LinesAre ==
  ASSUME NEW t \in Seq(Int)
  PROVE  /\ Lines(t) \in Seq(LineType) /\ Len(Lines(t)) = Len(t) + 3
         /\ Lines(t)[1] = Line("begin", <<>>) /\ Lines(t)[2] = Line("hash", t)
         /\ \A i \in 1..Len(t) : Lines(t)[i + 2] = Line("data", <<t[i]>>)
         /\ Lines(t)[Len(t) + 3] = Line("end", <<>>)
<1> DEFINE A == <<Line("begin", <<>>), Line("hash", t)>>
           D(i) == Line("data", <<t[i]>>)
           B == [i \in 1..Len(t) |-> D(i)]
           C == <<Line("end", <<>>)>>
<1>1. Len(t) \in Nat /\ \A i \in 1..Len(t) : t[i] \in Int /\ <<t[i]>> \in Seq(Int)
  BY LenProperties, ElementOfSeq
<1>2. A \in Seq(LineType) /\ Len(A) = 2 /\ A[1] = Line("begin", <<>>) /\ A[2] = Line("hash", t)
  <2>1. Line("begin", <<>>) \in LineType /\ Line("hash", t) \in LineType
    BY LineIsLine, EmptySeq
  <2>2. QED
    BY <2>1, ShortSeqs, Zenon
<1>3. B \in Seq(LineType) /\ Len(B) = Len(t) /\ \A i \in 1..Len(t) : B[i] = D(i)
  <2>1. \A i \in 1..Len(t) : D(i) \in LineType
    BY <1>1, LineIsLine
  <2> HIDE DEF D
  <2>2. QED
    BY <1>1, <2>1
<1>4. C \in Seq(LineType) /\ Len(C) = 1 /\ C[1] = Line("end", <<>>)
  <2>1. Line("end", <<>>) \in LineType
    BY LineIsLine, EmptySeq
  <2>2. QED
    BY <2>1, ShortSeqs, Zenon
<1>5. Lines(t) = A \o B \o C
  BY DEF Lines
<1> HIDE DEF A, B, C, D
<1>6. A \o B \in Seq(LineType) /\ Len(A \o B) = Len(t) + 2
      /\ \A i \in 1..(Len(t) + 2) : (A \o B)[i] = IF i <= 2 THEN A[i] ELSE B[i - 2]
  <2>0. A \in Seq(LineType) /\ B \in Seq(LineType)
    BY <1>2, <1>3
  <2>1. A \o B \in Seq(LineType) /\ Len(A \o B) = Len(A) + Len(B)
        /\ \A i \in 1..(Len(A) + Len(B)) : (A \o B)[i] = IF i <= Len(A) THEN A[i] ELSE B[i - Len(A)]
    BY <2>0, ConcatProperties, Zenon
  <2>2. Len(A) = 2 /\ Len(B) = Len(t) /\ Len(A) + Len(B) = Len(t) + 2
    BY <1>1, <1>2, <1>3
  <2>3. QED
    BY <2>1, <2>2
<1>7. (A \o B) \o C \in Seq(LineType) /\ Len((A \o B) \o C) = Len(t) + 3
      /\ \A i \in 1..(Len(t) + 3) : ((A \o B) \o C)[i] = IF i <= Len(t) + 2 THEN (A \o B)[i] ELSE C[i - (Len(t) + 2)]
  <2> DEFINE E == A \o B
  <2> HIDE DEF E
  <2>0. E \in Seq(LineType) /\ C \in Seq(LineType)
    BY <1>4, <1>6 DEF E
  <2>1. E \o C \in Seq(LineType) /\ Len(E \o C) = Len(E) + Len(C)
        /\ \A i \in 1..(Len(E) + Len(C)) : (E \o C)[i] = IF i <= Len(E) THEN E[i] ELSE C[i - Len(E)]
    BY <2>0, ConcatProperties, Zenon
  <2>2. Len(E) = Len(t) + 2 /\ Len(E) + Len(C) = Len(t) + 3
    BY <1>1, <1>4, <1>6 DEF E
  <2>3. E \o C \in Seq(LineType) /\ Len(E \o C) = Len(t) + 3
        /\ \A i \in 1..(Len(t) + 3) : (E \o C)[i] = IF i <= Len(t) + 2 THEN E[i] ELSE C[i - (Len(t) + 2)]
    BY <2>1, <2>2
  <2>4. QED
    BY <2>3 DEF E
<1>8. \A i \in 1..Len(t) : Lines(t)[i + 2] = D(i)
  <2> SUFFICES ASSUME NEW i \in 1..Len(t) PROVE Lines(t)[i + 2] = D(i)
    OBVIOUS
  <2>1. i + 2 \in 1..(Len(t) + 2) /\ i + 2 \in 1..(Len(t) + 3) /\ ~(i + 2 <= 2) /\ (i + 2) - 2 = i
    BY <1>1
  <2>2. QED
    BY <1>3, <1>5, <1>6, <1>7, <2>1
<1>9. Lines(t)[1] = A[1] /\ Lines(t)[2] = A[2] /\ Lines(t)[Len(t) + 3] = C[1]
  BY <1>1, <1>5, <1>6, <1>7
<1>10. QED
  BY <1>2, <1>4, <1>5, <1>7, <1>8, <1>9 DEF D

(* What follows a field, and what is in the last one, is read back.        *)
LEMMA FieldRead ==
  ASSUME NEW s \in Seq(Nat), NEW u \in Seq(Nat)
  PROVE  /\ Field(s) \in Seq(Nat) /\ Field(s) \o u \in Seq(Nat)
         /\ HasField(Field(s) \o u) /\ Rest(Field(s) \o u) = u
         /\ LastField(Field(s)) /\ Tail(Field(s)) = s
<1>1. Len(s) \in Nat /\ Len(u) \in Nat
  BY LenProperties
<1>2. <<Len(s)>> \in Seq(Nat) /\ Len(<<Len(s)>>) = 1 /\ <<Len(s)>>[1] = Len(s)
  BY <1>1
<1> DEFINE f == Field(s)
<1>3. /\ f \in Seq(Nat) /\ Len(f) = 1 + Len(s) /\ f[1] = Len(s)
      /\ \A i \in 1..Len(s) : f[i + 1] = s[i]
  <2> DEFINE h == <<Len(s)>>
  <2>0. h \in Seq(Nat) /\ Len(h) = 1 /\ h[1] = Len(s) /\ f = h \o s
    BY <1>2 DEF Field
  <2> HIDE DEF h, f
  <2>1. /\ f \in Seq(Nat) /\ Len(f) = 1 + Len(s)
        /\ \A i \in 1..(1 + Len(s)) : f[i] = IF i <= 1 THEN h[i] ELSE s[i - 1]
    <3>1. h \o s \in Seq(Nat) /\ Len(h \o s) = Len(h) + Len(s)
          /\ \A i \in 1..(Len(h) + Len(s)) : (h \o s)[i] = IF i <= Len(h) THEN h[i] ELSE s[i - Len(h)]
      BY <2>0, ConcatProperties, Zenon
    <3>2. QED
      BY <2>0, <3>1
  <2>2. ASSUME NEW i \in 1..Len(s) PROVE f[i + 1] = s[i]
    <3>1. i + 1 \in 1..(1 + Len(s)) /\ ~(i + 1 <= 1) /\ (i + 1) - 1 = i
      BY <1>1
    <3>2. QED
      BY <2>1, <3>1
  <2>3. QED
    BY <1>1, <2>0, <2>1, <2>2
<1> DEFINE g == f \o u
<1> HIDE DEF f
<1>4. /\ g \in Seq(Nat) /\ Len(g) = Len(f) + Len(u)
      /\ \A i \in 1..(Len(f) + Len(u)) : g[i] = IF i <= Len(f) THEN f[i] ELSE u[i - Len(f)]
  <2>1. f \in Seq(Nat)
    BY <1>3
  <2>2. QED
    BY <2>1, ConcatProperties, Zenon
<1> HIDE DEF g
<1>5. g # <<>> /\ f # <<>> /\ g[1] = Len(s)
  BY <1>1, <1>3, <1>4
<1>6. Head(g) = Len(s) /\ Head(f) = Len(s)
  BY <1>3, <1>4, <1>5
<1>7. HasField(g) /\ LastField(f)
  BY <1>1, <1>3, <1>4, <1>6 DEF HasField, LastField
<1>8. Rest(g) = u
  <2>1. /\ SubSeq(g, 2 + Len(s), Len(g)) \in Seq(Nat)
        /\ Len(SubSeq(g, 2 + Len(s), Len(g))) = Len(u)
        /\ \A i \in 1..Len(u) : SubSeq(g, 2 + Len(s), Len(g))[i] = g[Len(f) + i]
    <3>1. \A i \in (2 + Len(s))..Len(g) : g[i] \in Nat
      BY <1>1, <1>4, ElementOfSeq
    <3>2. 2 + Len(s) \in Int /\ Len(g) \in Int /\ Len(g) = 1 + Len(s) + Len(u)
      BY <1>1, <1>3, <1>4
    <3>3. /\ SubSeq(g, 2 + Len(s), Len(g)) \in Seq(Nat)
          /\ Len(SubSeq(g, 2 + Len(s), Len(g))) = IF 2 + Len(s) <= Len(g) THEN Len(g) - (2 + Len(s)) + 1 ELSE 0
          /\ \A i \in 1..(Len(g) - (2 + Len(s)) + 1) :
               SubSeq(g, 2 + Len(s), Len(g))[i] = g[2 + Len(s) + i - 1]
      BY <3>1, <3>2, SubSeqProperties
    <3>4. Len(g) - (2 + Len(s)) + 1 = Len(u) /\ \A i \in 1..Len(u) : 2 + Len(s) + i - 1 = Len(f) + i
      BY <1>1, <1>3, <3>2
    <3>5. IF 2 + Len(s) <= Len(g) THEN Len(g) - (2 + Len(s)) + 1 = Len(u) ELSE Len(u) = 0
      BY <1>1, <3>2
    <3> DEFINE v == SubSeq(g, 2 + Len(s), Len(g))
    <3>6. v \in Seq(Nat) /\ Len(v) = Len(u)
      BY <3>3, <3>5
    <3>7. \A i \in 1..Len(u) : v[i] = g[2 + Len(s) + i - 1]
      BY <3>3, <3>4
    <3> HIDE DEF v
    <3>8. \A i \in 1..Len(u) : v[i] = g[Len(f) + i]
      BY <3>4, <3>7
    <3>9. QED
      BY <3>6, <3>8 DEF v
  <2>2. \A i \in 1..Len(u) : g[Len(f) + i] = u[i]
    <3> SUFFICES ASSUME NEW i \in 1..Len(u) PROVE g[Len(f) + i] = u[i]
      OBVIOUS
    <3>1. Len(f) + i \in 1..(Len(f) + Len(u)) /\ ~(Len(f) + i <= Len(f)) /\ (Len(f) + i) - Len(f) = i
      BY <1>1, <1>3
    <3>2. QED
      BY <1>4, <3>1
  <2>3. SubSeq(g, 2 + Len(s), Len(g)) = u
    BY <2>1, <2>2, SeqEqual
  <2>4. QED
    BY <1>6, <2>3 DEF Rest
<1>9. Tail(f) = s
  <2>1. Tail(f) \in Seq(Nat) /\ Len(Tail(f)) = Len(s) /\ \A i \in 1..Len(s) : Tail(f)[i] = f[i + 1]
    BY <1>1, <1>3, <1>5, HeadTailProperties
  <2>2. QED
    BY <1>3, <2>1, SeqEqual
<1>10. QED
  BY <1>3, <1>4, <1>7, <1>8, <1>9 DEF f, g

(* The package format of kexec-sealer (main.go:56-77) and the readers of   *)
(* kexec/lib.go agree: every sealed package is well formed, and the        *)
(* configuration in it is read back unchanged, whatever kernel, signature  *)
(* and configuration there are.                                            *)
THEOREM SealedIsReadBack ==
  ASSUME NEW kernel \in Seq(Nat), NEW config \in Seq(Nat)
  PROVE  WellFormed(Seal(kernel, config)) /\ UnsealedConfig(Seal(kernel, config)) = config
<1> DEFINE data == Field(kernel) \o Field(config)
           pkg  == Field(Signature) \o Field(data)
<1>0. Signature \in Seq(Nat)
  BY ConfigAssumption
<1>1. Field(config) \in Seq(Nat) /\ LastField(Field(config)) /\ Tail(Field(config)) = config
  BY FieldRead
<1>2. data \in Seq(Nat) /\ HasField(data) /\ Rest(data) = Field(config)
  BY <1>1, FieldRead
<1>3. Field(data) \in Seq(Nat) /\ LastField(Field(data)) /\ Tail(Field(data)) = data
  <2> HIDE DEF data
  <2>1. QED
    BY <1>2, FieldRead
<1>4. HasField(pkg) /\ Rest(pkg) = Field(data)
  <2> HIDE DEF data
  <2>1. QED
    BY <1>0, <1>3, FieldRead
<1>5. Seal(kernel, config) = pkg
  BY DEF Seal
<1> HIDE DEF data, pkg
<1>6. QED
  BY <1>1, <1>2, <1>3, <1>4, <1>5 DEF WellFormed, UnsealedConfig

-----------------------------------------------------------------------------
(* Values of the variables.                                                *)

LEMMA IdleType == Idle \in ReaderType /\ Idle.st = "begin" /\ Idle.hash.tag = "none"
<1>1. NoLine \in LineType /\ NoLine.tag = "none"
  BY LineIsLine, EmptySeq DEF NoLine
<1>2. <<>> \in Seq(LineType)
  BY EmptySeq
<1>3. QED
  BY <1>1, <1>2 DEF Idle, ReaderType

(* The hash of an erased or powered-up on-chip RAM is that of no text.     *)
LEMMA OcramValues ==
  /\ Erased \in OcramType /\ Erased.hash \notin Texts
  /\ Junk \in OcramType /\ Junk.hash \notin Texts
<1>1. <<0>> \in Seq(Int) /\ <<-1>> \in Seq(Int)
  OBVIOUS
<1>2. Zeros \in [1..MemSize -> Int] /\ [i \in 1..MemSize |-> -2] \in [1..MemSize -> Int]
  BY DEF Zeros
<1>3. Erased \in OcramType /\ Junk \in OcramType /\ Erased.hash = <<0>> /\ Junk.hash = <<-1>>
  BY <1>1, <1>2 DEF Erased, Junk, OcramType
<1>4. ASSUME NEW c \in Configs PROVE Text[c] # <<0>> /\ Text[c] # <<-1>>
  <2>1. \A i \in 1..Len(Text[c]) : Text[c][i] \in Nat /\ Text[c][i] # 0
    BY TextType
  <2>2. Len(<<0>>) = 1 /\ <<0>>[1] = 0 /\ Len(<<-1>>) = 1 /\ <<-1>>[1] = -1
    OBVIOUS
  <2>3. QED
    BY <2>1, <2>2
<1>5. QED
  BY <1>3, <1>4 DEF Texts

LEMMA NoSaveType == NoSave \in SavingType /\ NoSave.at = "none"
<1>1. <<>> \in Seq(Int)
  BY EmptySeq
<1>2. QED
  BY <1>1 DEF NoSave, SavingType

(* A line read keeps the reader's type, and a hash comes from a line.      *)
LEMMA ReadType ==
  ASSUME rx \in ReaderType, NEW l \in LineType
  PROVE  /\ Read(l) \in ReaderType
         /\ Read(l).hash \in {rx.hash, l, Idle.hash}
<1>1. rx.st \in {"begin", "hash", "data"} /\ rx.hash \in LineType /\ rx.data \in Seq(LineType)
  BY DEF ReaderType
<1>2. CASE rx.st = "begin"
  <2>1. Read(l) = [rx EXCEPT !.st = IF l.tag = "begin" THEN "hash" ELSE "begin"]
    BY <1>2 DEF Read
  <2>2. QED
    BY <1>1, <2>1 DEF ReaderType
<1>3. CASE rx.st = "hash"
  <2>1. Read(l) = [st |-> "data", hash |-> l, data |-> <<>>] /\ <<>> \in Seq(LineType)
    BY <1>3, EmptySeq DEF Read
  <2>2. QED
    BY <1>1, <2>1 DEF ReaderType
<1>4. CASE rx.st = "data" /\ l.tag = "end"
  BY <1>4, IdleType DEF Read
<1>5. CASE rx.st = "data" /\ l.tag # "end"
  <2> DEFINE a == Append(rx.data, l)
  <2>1. Read(l) = [rx EXCEPT !.data = a]
    BY <1>5 DEF Read
  <2>2. a \in Seq(LineType)
    BY <1>1, AppendProperties
  <2> HIDE DEF a
  <2>3. QED
    BY <1>1, <2>1, <2>2 DEF ReaderType
<1>6. QED
  BY <1>1, <1>2, <1>3, <1>4, <1>5

LEMMA PrefixRead ==
  ASSUME NEW s, NEW t \in Seq(Int), \A i \in 1..Len(t) : s[i] = t[i]
  PROVE  SubSeq(s, 1, Len(t)) = t
<1>1. Len(t) \in Nat /\ \A i \in 1..Len(t) : s[i] \in Int
  BY LenProperties, ElementOfSeq
<1> DEFINE v == SubSeq(s, 1, Len(t))
<1>2. /\ v \in Seq(Int) /\ Len(v) = IF 1 <= Len(t) THEN Len(t) - 1 + 1 ELSE 0
      /\ \A i \in 1..(Len(t) - 1 + 1) : v[i] = s[1 + i - 1]
  BY <1>1, SubSeqProperties
<1> HIDE DEF v
<1>3. Len(v) = Len(t) /\ \A i \in 1..Len(t) : v[i] = t[i]
  <2>1. Len(t) - 1 + 1 = Len(t) /\ \A i \in 1..Len(t) : 1 + i - 1 = i
    BY <1>1
  <2>2. Len(v) = Len(t)
    BY <1>1, <1>2
  <2>3. \A i \in 1..Len(t) : v[i] = s[1 + i - 1]
    BY <1>2, <2>1
  <2>4. QED
    BY <2>1, <2>2, <2>3
<1>4. v = t
  BY <1>2, <1>3, SeqEqual
<1>5. QED
  BY <1>4 DEF v

(* A text that was wholly stored is what is found at the next start.       *)
LEMMA StoredIsFound ==
  ASSUME ConfigTypeOK, NEW t \in Texts, Stored(t) PROVE OcramText = t
<1> DEFINE zeros == {i \in 1..MemSize : ocram.cells[i] = 0}
<1>1. t \in Seq(Int) /\ Len(t) \in Nat /\ \A i \in 1..Len(t) : t[i] \in Int /\ t[i] # 0
  BY TextType DEF Texts
<1>2. Len(t) + 1 <= MemSize /\ MemSize \in Nat
  BY ConfigAssumption DEF Stored, Copied, Begun
<1>3. Len(t) + 1 \in zeros /\ \A j \in zeros : Len(t) + 1 <= j
  <2>1. Len(t) + 1 \in zeros
    BY <1>1, <1>2 DEF Stored
  <2>2. ASSUME NEW j \in zeros, ~(Len(t) + 1 <= j) PROVE FALSE
    <3>1. j \in 1..Len(t) /\ ocram.cells[j] = 0
      BY <1>1, <1>2, <2>2
    <3>2. QED
      BY <1>1, <3>1 DEF Stored, Copied
  <2>3. QED
    BY <2>1, <2>2
<1>4. (CHOOSE i \in zeros : \A j \in zeros : i <= j) = Len(t) + 1
  <2> DEFINE m == CHOOSE i \in zeros : \A j \in zeros : i <= j
  <2> HIDE DEF zeros
  <2>1. m \in zeros /\ \A j \in zeros : m <= j
    BY <1>3
  <2> HIDE DEF m
  <2>2. m \in Nat
    BY <2>1 DEF zeros
  <2>3. m \in Nat /\ m <= Len(t) + 1 /\ Len(t) + 1 <= m
    BY <1>3, <2>1, <2>2
  <2>4. m = Len(t) + 1
    BY <1>1, <2>3
  <2>5. QED
    BY <2>4 DEF m
<1>5. OcramText = SubSeq(ocram.cells, 1, Len(t))
  <2>1. OcramText = SubSeq(ocram.cells, 1, (Len(t) + 1) - 1)
    BY <1>3, <1>4 DEF OcramText
  <2>2. (Len(t) + 1) - 1 = Len(t)
    BY <1>1
  <2>3. QED
    BY <2>1, <2>2
<1>6. \A i \in 1..Len(t) : ocram.cells[i] = t[i]
  BY DEF Stored, Copied
<1>7. QED
  BY <1>1, <1>5, <1>6, PrefixRead

LEMMA ConfigInvInit == ConfigInit => ConfigInv
<1> SUFFICES ASSUME ConfigInit PROVE ConfigInv
  OBVIOUS
<1> USE DEF ConfigInit
<1>1. ConfigTypeOK
  <2>1. <<>> \in Seq(Int) /\ <<>> \in Seq(LineType)
    BY EmptySeq
  <2>2. FALSE \in BOOLEAN
    BY Zenon
  <2>3. 0 \in 0..MaxSends /\ 0 \in 0..MaxDamage /\ 0 \in 0..MaxUpgrades /\ 0 \in Nat
    BY ConfigAssumption
  <2>4. ocram \in OcramType /\ rx \in ReaderType /\ saving \in SavingType
    BY IdleType, OcramValues, NoSaveType
  <2>5. QED
    BY <2>1, <2>2, <2>3, <2>4 DEF ConfigTypeOK
<1>2. LineInv
  BY DEF LineInv
<1>3. GivenInv
  BY IdleType, OcramValues, NoSaveType DEF GivenInv
<1>4. SaveInv
  BY NoSaveType DEF SaveInv
<1>5. QED
  BY <1>1, <1>2, <1>3, <1>4 DEF ConfigInv

-----------------------------------------------------------------------------
(* How loading ends.                                                       *)

LEMMA UseStep ==
  ASSUME ConfigInv, NEW t \in Seq(Int), Use(t), UNCHANGED <<file, saving, upgrades, saved>>,
         saving.at = "none", ocram' \in OcramType, file = NoFile => ocram'.hash \notin Texts,
         saved # <<>> /\ file = NoFile => t = saved
  PROVE  ConfigInv'
<1> USE DEF Use
<1>1. ConfigTypeOK'
  <2>1. <<>> \in Seq(LineType)
    BY EmptySeq
  <2>2. FALSE \in BOOLEAN
    BY Zenon
  <2>3. phase' \in {"main", "dead"}
    OBVIOUS
  <2>4. 0 \in 0..MaxSends /\ 0 \in 0..MaxDamage
    BY ConfigAssumption
  <2>5. QED
    BY <2>1, <2>2, <2>3, <2>4, IdleType DEF ConfigInv, ConfigTypeOK
<1>2. LineInv'
  BY DEF LineInv
<1>3. GivenInv'
  BY IdleType DEF GivenInv
<1>4. SaveInv'
  BY DEF SaveInv, ConfigInv
<1>5. QED
  BY <1>1, <1>2, <1>3, <1>4 DEF ConfigInv

(* A fatal error leaves everything as it is.                               *)
LEMMA DeadStep ==
  ASSUME ConfigInv, phase' = "dead",
         UNCHANGED <<file, text, ocram, rx, tx, hurt, saving, sends, damage, upgrades, clean, given, saved>>
  PROVE  ConfigInv'
<1>1. ConfigTypeOK'
  BY DEF ConfigInv, ConfigTypeOK
<1>2. LineInv'
  BY DEF LineInv
<1>3. GivenInv'
  BY DEF ConfigInv, GivenInv, IsGiven
<1>4. SaveInv'
  BY DEF ConfigInv, SaveInv, Begun, Copied, Stored
<1>5. QED
  BY <1>1, <1>2, <1>3, <1>4 DEF ConfigInv

LEMMA LoadFileStep == ASSUME ConfigInv, LoadFile PROVE ConfigInv'
<1>1. CASE Use(Text[file])
  <2>1. file \in Configs /\ Text[file] \in Seq(Int)
    BY TextType DEF LoadFile, ConfigInv, ConfigTypeOK
  <2>2. saving.at = "none" /\ ocram' \in OcramType
    BY DEF LoadFile, ConfigInv, ConfigTypeOK, SaveInv
  <2>3. QED
    BY <1>1, <2>1, <2>2, UseStep DEF LoadFile
<1>2. CASE phase' = "dead" /\ NotUsed
  BY <1>2, DeadStep DEF LoadFile, NotUsed
<1>3. QED
  BY <1>1, <1>2 DEF LoadFile

LEMMA LoadOcramStep == ASSUME ConfigInv, LoadOcram PROVE ConfigInv'
<1>0. phase = "boot" /\ file = NoFile /\ UNCHANGED <<file, saving, upgrades, saved>>
  BY DEF LoadOcram
<1>1. saving.at = "none" /\ (saved # <<>> => saved \in Texts /\ Stored(saved))
  BY <1>0 DEF ConfigInv, SaveInv
<1>2. saved # <<>> => OcramText = saved /\ ocram.hash = saved
  BY <1>1, StoredIsFound DEF ConfigInv, Stored, Copied, Begun
<1>3. CASE ocram' = Erased /\ ocram.hash = OcramText /\ Use(OcramText)
  <2>1. OcramText \in Seq(Int)
    BY <1>3 DEF ConfigInv, ConfigTypeOK, OcramType
  <2>2. QED
    BY <1>0, <1>1, <1>2, <1>3, <2>1, OcramValues, UseStep
<1>4. CASE ocram' = Erased /\ ocram.hash # OcramText /\ phase' = "gs0" /\ NotUsed
  <2> USE <1>0, <1>1, <1>2, <1>4 DEF NotUsed
  <2>1. ConfigTypeOK'
    BY OcramValues DEF ConfigInv, ConfigTypeOK
  <2>2. LineInv'
    BY DEF ConfigInv, LineInv
  <2>3. GivenInv'
    BY OcramValues DEF ConfigInv, GivenInv, IsGiven
  <2>4. SaveInv'
    BY DEF SaveInv
  <2>5. QED
    BY <2>1, <2>2, <2>3, <2>4 DEF ConfigInv
<1>5. CASE phase' = "dead" /\ UNCHANGED ocram /\ NotUsed
  BY <1>0, <1>5, DeadStep DEF NotUsed
<1>6. QED
  BY <1>3, <1>4, <1>5 DEF LoadOcram

-----------------------------------------------------------------------------
(* The serial line.                                                        *)

LEMMA SentType == ASSUME NEW c \in Sent PROVE c \in Configs /\ Text[c] \in Seq(Int) /\ Len(Text[c]) \in Nat
  BY ConfigAssumption, TextType

LEMMA StartSendingStep == ASSUME ConfigInv, NEW c \in Sent, StartSending(c) PROVE ConfigInv'
<1> USE DEF StartSending
<1> DEFINE t == Text[c]
<1>0. phase = "gs0" /\ phase' = "gs0" /\ UNCHANGED <<file, text, ocram, rx, saving, clean, saved>>
  OBVIOUS
<1>1. c \in Configs /\ t \in Seq(Int) /\ Len(t) \in Nat
  BY SentType
<1>2. /\ tx' \in Seq(LineType) /\ tx' = Lines(t) /\ Len(tx') = Len(t) + 3
      /\ Lines(t)[1] = Line("begin", <<>>) /\ Lines(t)[2] = Line("hash", t)
      /\ \A i \in 1..Len(t) : Lines(t)[i + 2] = Line("data", <<t[i]>>)
      /\ Lines(t)[Len(t) + 3] = Line("end", <<>>)
  BY <1>1, LinesAre
<1>3. ConfigTypeOK'
  <2>1. FALSE \in BOOLEAN
    BY Zenon
  <2>2. sends' \in 0..MaxSends
    BY ConfigAssumption DEF ConfigInv, ConfigTypeOK
  <2>3. given' \subseteq Configs
    BY <1>1 DEF ConfigInv, ConfigTypeOK
  <2>4. QED
    BY <1>0, <1>2, <2>1, <2>2, <2>3 DEF ConfigInv, ConfigTypeOK
<1>4. LineInv'
  <2>1. clean \in {0, 1} /\ (clean = 0 \/ rx.st = "begin")
    BY <1>0 DEF ConfigInv, LineInv
  <2>2. Coming(c, 1)'
    <3> SUFFICES /\ Len(tx') = Len(t) + 4 - 1
                 /\ \A j \in 1..Len(tx') : tx'[j] = Lines(t)[1 - 1 + j]
      BY DEF Coming
    <3>1. \A j \in 1..Len(tx') : 1 - 1 + j = j
      BY <1>1, <1>2
    <3>2. QED
      BY <1>1, <1>2, <3>1
  <2>3. Follows(c, 1)'
    BY <1>0, <2>1 DEF Follows
  <2>4. 1 \in 1..(Len(Text[c]) + 3) /\ ~hurt'
    BY <1>1
  <2>5. QED
    BY <1>0, <2>1, <2>2, <2>3, <2>4 DEF LineInv
<1>5. GivenInv'
  <2>1. \A u : IsGiven(u) => IsGiven(u)'
    BY DEF IsGiven
  <2>2. IsGiven(t)'
    BY DEF IsGiven
  <2>3. ASSUME NEW j \in 1..Len(tx'), tx'[j].tag = "hash" PROVE IsGiven(tx[j].val)'
    <3>1. j = 1 \/ j = 2 \/ (j \in 3..(Len(t) + 2) /\ j - 2 \in 1..Len(t) /\ (j - 2) + 2 = j) \/ j = Len(t) + 3
      BY <1>1, <1>2, <2>3
    <3>2. j = 1 \/ j = 2 \/ tx'[j] = Line("data", <<t[j - 2]>>) \/ tx'[j] = Line("end", <<>>)
      BY <1>2, <3>1
    <3>3. \A g, v : Line(g, v).tag = g /\ Line(g, v).val = v
      BY DEF Line
    <3>4. tx'[j] = Line("hash", t)
      BY <1>2, <2>3, <3>2, <3>3
    <3>5. QED
      BY <2>2, <3>3, <3>4
  <2>4. QED
    BY <1>0, <2>1, <2>3 DEF ConfigInv, GivenInv
<1>6. SaveInv'
  BY <1>0 DEF ConfigInv, SaveInv, Begun, Copied, Stored
<1>7. QED
  BY <1>3, <1>4, <1>5, <1>6 DEF ConfigInv

(* The line at the head of tx, and what comes after it.                    *)
LEMMA HeadOfLine ==
  ASSUME ConfigInv, tx # <<>>
  PROVE  /\ Head(tx) = tx[1] /\ Head(tx) \in LineType /\ 1 \in 1..Len(tx)
         /\ Tail(tx) \in Seq(LineType) /\ Len(Tail(tx)) = Len(tx) - 1
         /\ \A j \in 1..Len(Tail(tx)) : Tail(tx)[j] = tx[j + 1] /\ j + 1 \in 1..Len(tx)
<1>1. tx \in Seq(LineType)
  BY DEF ConfigInv, ConfigTypeOK
<1>2. Len(tx) \in Nat \ {0} /\ Head(tx) = tx[1]
  BY <1>1, EmptySeq
<1>3. /\ Head(tx) \in LineType /\ Tail(tx) \in Seq(LineType) /\ Len(Tail(tx)) = Len(tx) - 1
      /\ \A j \in 1..Len(Tail(tx)) : Tail(tx)[j] = tx[j + 1]
  BY <1>1, HeadTailProperties
<1>4. QED
  BY <1>2, <1>3

LEMMA ComingNext ==
  ASSUME ConfigInv, tx # <<>>, tx' = Tail(tx), tx' # <<>>, NEW c \in Sent,
         NEW k \in 1..(Len(Text[c]) + 3), Coming(c, k)
  PROVE  k + 1 \in 1..(Len(Text[c]) + 3) /\ Coming(c, k + 1)'
<1>1. Len(Text[c]) \in Nat /\ Text[c] \in Seq(Int)
  BY SentType
<1>2. Len(tx) = Len(Text[c]) + 4 - k /\ \A j \in 1..Len(tx) : tx[j] = Lines(Text[c])[k - 1 + j]
  BY DEF Coming
<1>3. /\ tx' \in Seq(LineType) /\ Len(tx') = Len(tx) - 1
      /\ \A j \in 1..Len(tx') : tx'[j] = tx[j + 1] /\ j + 1 \in 1..Len(tx)
  BY HeadOfLine
<1>4. Len(tx') \in Nat \ {0}
  BY <1>3, EmptySeq
<1>5. k + 1 \in 1..(Len(Text[c]) + 3) /\ Len(tx') = Len(Text[c]) + 4 - (k + 1)
  BY <1>1, <1>2, <1>3, <1>4
<1>6. ASSUME NEW j \in 1..Len(tx') PROVE tx'[j] = Lines(Text[c])[(k + 1) - 1 + j]
  <2>1. k - 1 + (j + 1) = (k + 1) - 1 + j
    BY <1>4
  <2>2. tx'[j] = Lines(Text[c])[k - 1 + (j + 1)]
    BY <1>2, <1>3
  <2>3. QED
    BY <2>1, <2>2
<1>7. QED
  BY <1>5, <1>6 DEF Coming

(* The next line of a transmission, by its place in it.                    *)
LEMMA NextLine ==
  ASSUME ConfigInv, tx # <<>>, NEW c \in Sent, NEW k \in 1..(Len(Text[c]) + 3), Coming(c, k)
  PROVE  /\ k = 1 => Head(tx) = Line("begin", <<>>)
         /\ k = 2 => Head(tx) = Line("hash", Text[c])
         /\ k >= 3 /\ k <= Len(Text[c]) + 2 =>
              k - 2 \in 1..Len(Text[c]) /\ Head(tx) = Line("data", <<Text[c][k - 2]>>)
         /\ k = Len(Text[c]) + 3 <=> Tail(tx) = <<>>
         /\ k = Len(Text[c]) + 3 => Head(tx) = Line("end", <<>>)
<1> DEFINE t == Text[c]
<1>1. Len(t) \in Nat /\ t \in Seq(Int)
  BY SentType
<1>2. /\ Lines(t)[1] = Line("begin", <<>>) /\ Lines(t)[2] = Line("hash", t)
      /\ \A i \in 1..Len(t) : Lines(t)[i + 2] = Line("data", <<t[i]>>)
      /\ Lines(t)[Len(t) + 3] = Line("end", <<>>)
  BY <1>1, LinesAre
<1>3. Head(tx) = Lines(t)[k]
  <2>1. Head(tx) = tx[1] /\ tx[1] = Lines(t)[k - 1 + 1]
    BY HeadOfLine DEF Coming
  <2>2. k - 1 + 1 = k
    BY <1>1
  <2>3. QED
    BY <2>1, <2>2
<1>4. k = Len(t) + 3 <=> Tail(tx) = <<>>
  <2>1. Len(tx) = Len(t) + 4 - k /\ Len(Tail(tx)) = Len(tx) - 1 /\ Tail(tx) \in Seq(LineType)
    BY HeadOfLine DEF Coming
  <2> DEFINE u == Tail(tx)  n == Len(tx)
  <2>2. n = Len(t) + 4 - k /\ Len(u) = n - 1 /\ u \in Seq(LineType)
    BY <2>1
  <2> HIDE DEF u, n, t
  <2>3. u = <<>> <=> Len(u) = 0
    BY <2>2, EmptySeq
  <2>4. k \in Nat
    BY <1>1 DEF t
  <2>5. k = Len(t) + 3 <=> Len(u) = 0
    BY <1>1, <2>2, <2>4
  <2>6. QED
    BY <2>3, <2>5 DEF u
<1> HIDE DEF t
<1>5. k >= 3 /\ k <= Len(t) + 2 => k - 2 \in 1..Len(t) /\ Lines(t)[k] = Line("data", <<t[k - 2]>>)
  <2>1. k >= 3 /\ k <= Len(t) + 2 => k - 2 \in 1..Len(t) /\ (k - 2) + 2 = k
    BY <1>1
  <2>2. QED
    BY <1>2, <2>1
<1>6. QED
  BY <1>2, <1>3, <1>4, <1>5 DEF t

LEMMA LineParts ==
  /\ Line("begin", <<>>).tag = "begin" /\ Line("end", <<>>).tag = "end"
  /\ \A v : Line("hash", v).tag = "hash" /\ Line("hash", v).val = v
  /\ \A v : Line("data", v).tag = "data" /\ Line("data", v).val = v
  BY DEF Line

(* The check at the end: it passes a whole transmission and no spoilt one. *)
LEMMA SyncedIsGood ==
  ASSUME rx \in ReaderType, NEW c \in Sent, Synced(c, Len(Text[c]) + 3) PROVE Good(rx)
<1> DEFINE t == Text[c]
<1>1. Len(t) \in Nat /\ t \in Seq(Int) /\ (Len(t) + 3) - 3 = Len(t)
  BY SentType
<1>2. /\ Len(rx.data) = Len(t) /\ rx.hash = Line("hash", t)
      /\ \A i \in 1..Len(t) : rx.data[i] = Line("data", <<t[i]>>)
  BY <1>1 DEF Synced
<1> HIDE DEF t
<1>3. \A i \in 1..Len(t) : rx.data[i].tag = "data" /\ rx.data[i].val[1] = t[i]
  <2> SUFFICES ASSUME NEW i \in 1..Len(t) PROVE rx.data[i].tag = "data" /\ rx.data[i].val[1] = t[i]
    OBVIOUS
  <2> DEFINE x == rx.data[i]  y == <<t[i]>>
  <2>1. x = Line("data", y) /\ y[1] = t[i]
    BY <1>2
  <2> HIDE DEF x, y
  <2>2. x.tag = "data" /\ x.val = y
    BY <2>1, LineParts
  <2>3. QED
    BY <2>1, <2>2 DEF x
<1>4. Received(rx) = [i \in 1..Len(t) |-> t[i]]
  BY <1>2, <1>3 DEF Received
<1>5. [i \in 1..Len(t) |-> t[i]] = t
  BY <1>1, LenProperties
<1>6. QED
  BY <1>2, <1>3, <1>4, <1>5, LineParts DEF Good

(* The reader keeps up with an undamaged transmission.                     *)
LEMMA FollowsNext ==
  ASSUME ConfigInv, tx # <<>>, NEW c \in Sent, NEW k \in 1..(Len(Text[c]) + 3), Coming(c, k),
         Follows(c, k), Tail(tx) # <<>>, rx' = Read(Head(tx)), clean' = clean
  PROVE  Follows(c, k + 1)'
<1> DEFINE l == Head(tx)
<1>0. /\ Len(Text[c]) \in Nat /\ rx.st \in {"begin", "hash", "data"} /\ l \in LineType
      /\ rx \in ReaderType /\ rx.data \in Seq(LineType) /\ Len(rx.data) \in Nat
  BY SentType, HeadOfLine, LenProperties DEF ConfigInv, ConfigTypeOK, ReaderType
<1>1. l.tag # "end" /\ k <= Len(Text[c]) + 2
  <2>1. k # Len(Text[c]) + 3
    BY NextLine
  <2>2. k = 1 \/ k = 2 \/ (k >= 3 /\ k <= Len(Text[c]) + 2)
    BY <1>0, <2>1
  <2>3. l = Line("begin", <<>>) \/ (\E v : l = Line("hash", v)) \/ (\E v : l = Line("data", v))
    BY <2>2, NextLine
  <2>4. l.tag # "end"
    <3> HIDE DEF l
    <3>1. QED
      BY <2>3, LineParts
  <2>5. QED
    BY <1>0, <2>2, <2>4
<1> HIDE DEF l
<1>2. rx.st = "begin" => rx' = [rx EXCEPT !.st = IF l.tag = "begin" THEN "hash" ELSE "begin"]
  BY DEF Read, l
<1>3. rx.st = "hash" => rx' = [st |-> "data", hash |-> l, data |-> <<>>]
  BY DEF Read, l
<1>4. rx.st = "data" =>
        /\ rx'.st = "data" /\ rx'.hash = rx.hash /\ Len(rx'.data) = Len(rx.data) + 1
        /\ \A i \in 1..Len(rx.data) : rx'.data[i] = rx.data[i]
        /\ rx'.data[Len(rx.data) + 1] = l
  <2> SUFFICES ASSUME rx.st = "data"
               PROVE  /\ rx'.st = "data" /\ rx'.hash = rx.hash /\ Len(rx'.data) = Len(rx.data) + 1
                      /\ \A i \in 1..Len(rx.data) : rx'.data[i] = rx.data[i]
                      /\ rx'.data[Len(rx.data) + 1] = l
    OBVIOUS
  <2> DEFINE a == Append(rx.data, l)
  <2>1. rx' = [rx EXCEPT !.data = a]
    BY <1>1 DEF Read, l
  <2>2. Len(a) = Len(rx.data) + 1 /\ a[Len(rx.data) + 1] = l /\ \A i \in 1..Len(rx.data) : a[i] = rx.data[i]
    BY <1>0, AppendProperties
  <2> HIDE DEF a
  <2>3. rx'.st = "data" /\ rx'.hash = rx.hash /\ rx'.data = a
    BY <1>0, <2>1 DEF ReaderType
  <2>4. QED
    BY <2>2, <2>3
<1>5. Spoilt => Spoilt'
  <2> SUFFICES ASSUME Spoilt PROVE Spoilt'
    OBVIOUS
  <2>1. rx.st = "data"
    BY DEF Spoilt
  <2>2. CASE rx.hash.tag # "hash"
    BY <1>4, <2>1, <2>2 DEF Spoilt
  <2>3. CASE \E i \in 1..Len(rx.data) : rx.data[i].tag # "data"
    <3>1. PICK i \in 1..Len(rx.data) : rx.data[i].tag # "data"
      BY <2>3
    <3>2. i \in 1..Len(rx'.data) /\ rx'.data[i].tag # "data"
      BY <1>0, <1>4, <2>1, <3>1
    <3>3. QED
      BY <1>4, <2>1, <3>2 DEF Spoilt
  <2>4. QED
    BY <2>2, <2>3 DEF Spoilt
<1>6. CASE k = 1
  <2>1. l = Line("begin", <<>>) /\ l.tag = "begin" /\ k + 1 = 2
    <3>1. l = Line("begin", <<>>)
      BY <1>6, NextLine DEF l
    <3>2. QED
      BY <1>6, <3>1, LineParts
  <2>2. CASE rx.st = "begin"
    <3>1. rx'.st = "hash"
      BY <1>0, <1>2, <2>1, <2>2 DEF ReaderType
    <3>2. QED
      BY <2>1, <3>1 DEF Follows
  <2>3. CASE rx.st = "hash"
    <3>1. Spoilt' /\ clean = 0
      BY <1>3, <1>6, <2>1, <2>3 DEF Spoilt, Follows
    <3>2. QED
      BY <2>1, <3>1 DEF Follows
  <2>4. CASE rx.st = "data"
    <3>1. Len(rx.data) + 1 \in 1..Len(rx'.data) /\ rx'.data[Len(rx.data) + 1].tag = "begin"
      BY <1>0, <1>4, <2>1, <2>4
    <3>2. Spoilt' /\ clean = 0
      BY <1>4, <1>6, <2>4, <3>1 DEF Spoilt, Follows
    <3>3. QED
      BY <2>1, <3>2 DEF Follows
  <2>5. QED
    BY <1>0, <2>2, <2>3, <2>4
<1>7. CASE k = 2
  <2>1. l = Line("hash", Text[c]) /\ k + 1 = 3
    <3>1. l = Line("hash", Text[c])
      BY <1>7, NextLine DEF l
    <3>2. QED
      BY <1>7, <3>1
  <2>2. CASE rx.st = "hash"
    <3>1. rx'.st = "data" /\ rx'.hash = l /\ rx'.data = <<>> /\ Len(<<>>) = 0
      BY <1>3, <2>2
    <3>2. Synced(c, 3)'
      BY <2>1, <3>1 DEF Synced
    <3>3. QED
      BY <2>1, <3>2 DEF Follows
  <2>3. CASE clean = 0 /\ Spoilt
    BY <1>5, <2>1, <2>3 DEF Follows
  <2>4. QED
    BY <1>7, <2>2, <2>3 DEF Follows
<1>8. CASE k >= 3
  <2>1. k - 2 \in 1..Len(Text[c]) /\ l = Line("data", <<Text[c][k - 2]>>) /\ k + 1 >= 3 /\ k + 1 # 1 /\ k + 1 # 2
    BY <1>0, <1>1, <1>8, NextLine DEF l
  <2>2. CASE Synced(c, k)
    <3>1. /\ Len(rx.data) = k - 3 /\ (k - 3) + 1 = k - 2 /\ (k + 1) - 3 = k - 2
          /\ rx.st = "data" /\ rx.hash = Line("hash", Text[c])
          /\ \A i \in 1..(k - 3) : rx.data[i] = Line("data", <<Text[c][i]>>)
      BY <1>0, <2>2 DEF Synced
    <3>2. /\ rx'.st = "data" /\ rx'.hash = Line("hash", Text[c]) /\ Len(rx'.data) = k - 2
          /\ rx'.data[k - 2] = l /\ \A i \in 1..(k - 3) : rx'.data[i] = rx.data[i]
      BY <1>4, <3>1
    <3>3. \A i \in 1..(k - 2) : i = k - 2 \/ i \in 1..(k - 3)
      BY <1>0
    <3>4. \A i \in 1..(k - 2) : rx'.data[i] = Line("data", <<Text[c][i]>>)
      BY <2>1, <3>1, <3>2, <3>3
    <3>5. Synced(c, k + 1)'
      BY <3>1, <3>2, <3>4 DEF Synced
    <3>6. QED
      BY <2>1, <3>5 DEF Follows
  <2>3. CASE clean = 0 /\ Spoilt
    BY <1>5, <2>1, <2>3 DEF Follows
  <2>4. QED
    BY <1>8, <2>2, <2>3 DEF Follows
<1>9. QED
  BY <1>0, <1>6, <1>7, <1>8

(* Reading a line, whatever it is, disturbs none of the rest.              *)
LEMMA LineRead ==
  ASSUME ConfigInv, phase = "gs0", phase' = "gs0", tx # <<>>, tx' = Tail(tx),
         NEW l \in LineType, l.tag = "hash" => IsGiven(l.val), rx' \in {rx, Read(l)},
         hurt' \in BOOLEAN, clean' \in Nat, sends' \in 0..MaxSends, damage' \in 0..MaxDamage,
         UNCHANGED <<file, text, ocram, saving, upgrades, given, saved>>
  PROVE  ConfigTypeOK' /\ GivenInv' /\ SaveInv'
<1>1. /\ tx' \in Seq(LineType)
      /\ \A j \in 1..Len(tx') : tx'[j] = tx[j + 1] /\ j + 1 \in 1..Len(tx)
  BY HeadOfLine
<1>2. rx' \in ReaderType /\ rx'.hash \in {rx.hash, l, Idle.hash}
  BY ReadType DEF ConfigInv, ConfigTypeOK
<1>3. ConfigTypeOK'
  BY <1>1, <1>2 DEF ConfigInv, ConfigTypeOK
<1>4. GivenInv'
  <2>1. \A u : IsGiven(u)' <=> IsGiven(u)
    BY DEF IsGiven
  <2>2. rx'.hash.tag = "hash" => IsGiven(rx.hash.val)'
    <3>1. rx'.hash.tag = "hash" => IsGiven(rx'.hash.val)
      BY <1>2, IdleType DEF ConfigInv, GivenInv
    <3>2. QED
      BY <3>1 DEF IsGiven
  <2>3. ASSUME NEW j \in 1..Len(tx'), tx'[j].tag = "hash" PROVE IsGiven(tx[j].val)'
    <3>1. IsGiven(tx'[j].val)
      BY <1>1, <2>3 DEF ConfigInv, GivenInv
    <3>2. QED
      BY <3>1 DEF IsGiven
  <2>4. QED
    BY <2>1, <2>2, <2>3 DEF ConfigInv, GivenInv
<1>5. SaveInv'
  BY DEF ConfigInv, SaveInv, Begun, Copied, Stored
<1>6. QED
  BY <1>3, <1>4, <1>5

(* What passes the check is a text of the type of texts.                   *)
LEMMA UseReceived ==
  ASSUME ConfigInv, phase = "gs0", Good(rx), Use(Received(rx)),
         UNCHANGED <<file, ocram, saving, upgrades, saved>>
  PROVE  ConfigInv'
<1>1. Received(rx) \in Seq(Int)
  BY DEF Good, ConfigInv, ConfigTypeOK, ReaderType, LineType
<1>2. saving.at = "none" /\ ~(saved # <<>> /\ file = NoFile)
  BY DEF ConfigInv, SaveInv
<1>3. ocram' = Erased
  BY DEF ConfigInv, GivenInv
<1>4. QED
  BY <1>1, <1>2, <1>3, OcramValues, UseStep

LEMMA DeliverStep == ASSUME ConfigInv, Deliver PROVE ConfigInv'
<1> DEFINE l == Head(tx)
<1>0. phase = "gs0" /\ tx # <<>> /\ UNCHANGED <<file, ocram, saving, upgrades, saved>>
  BY DEF Deliver
<1>1. CASE rx.st = "data" /\ l.tag = "end" /\ Good(rx)
  <2>1. Use(Received(rx))
    BY <1>1 DEF Deliver, Receive
  <2>2. QED
    BY <1>0, <1>1, <2>1, UseReceived
<1>2. CASE ~(rx.st = "data" /\ l.tag = "end" /\ Good(rx))
  <2>1. rx' = Read(l) /\ phase' = "gs0" /\ UNCHANGED text
    BY <1>0, <1>2 DEF Deliver, Receive
  <2>2. /\ tx' = Tail(tx) /\ UNCHANGED <<hurt, sends, damage, given>>
        /\ clean' = IF hurt THEN 0 ELSE IF Tail(tx) = <<>> THEN clean + 1 ELSE clean
    BY <2>1 DEF Deliver
  <2>3. l \in LineType /\ (l.tag = "hash" => IsGiven(l.val))
    BY <1>0, HeadOfLine DEF ConfigInv, GivenInv
  <2>4. ConfigTypeOK' /\ GivenInv' /\ SaveInv'
    <3>1. hurt' \in BOOLEAN /\ sends' \in 0..MaxSends /\ damage' \in 0..MaxDamage
      BY <2>2 DEF ConfigInv, ConfigTypeOK
    <3>2. clean' \in Nat
      BY <2>2 DEF ConfigInv, ConfigTypeOK
    <3> HIDE DEF l
    <3>3. QED
      BY <1>0, <2>1, <2>2, <2>3, <3>1, <3>2, LineRead
  <2>5. LineInv'
    <3>0. PICK c \in Sent : \E k \in 1..(Len(Text[c]) + 3) : Coming(c, k) /\ (hurt \/ Follows(c, k))
      BY <1>0 DEF ConfigInv, LineInv
    <3>1. PICK k \in 1..(Len(Text[c]) + 3) : Coming(c, k) /\ (hurt \/ Follows(c, k))
      BY <3>0
    <3>2. clean \in {0, 1} /\ (hurt => clean = 0)
      BY <1>0 DEF ConfigInv, LineInv
    <3>3. CASE Tail(tx) # <<>>
      <4>1. clean' = clean
        BY <2>2, <3>2, <3>3
      <4>2. k + 1 \in 1..(Len(Text[c]) + 3) /\ Coming(c, k + 1)'
        BY <1>0, <2>2, <3>1, <3>3, ComingNext
      <4>3. hurt' \/ Follows(c, k + 1)'
        BY <1>0, <2>1, <2>2, <3>1, <3>3, <4>1, FollowsNext
      <4>4. QED
        BY <2>1, <2>2, <3>2, <3>3, <4>1, <4>2, <4>3 DEF LineInv
    <3>4. CASE Tail(tx) = <<>> /\ hurt
      BY <2>1, <2>2, <3>4 DEF LineInv
    <3>5. CASE Tail(tx) = <<>> /\ ~hurt
      <4>1. k = Len(Text[c]) + 3 /\ k >= 3 /\ l = Line("end", <<>>)
        <5>1. k = Len(Text[c]) + 3 /\ l = Line("end", <<>>)
          BY <1>0, <3>1, <3>5, NextLine
        <5>2. k >= 3
          BY <5>1, SentType
        <5>3. QED
          BY <5>1, <5>2
      <4>2. l.tag = "end"
        BY <4>1, LineParts
      <4>3. rx \in ReaderType
        BY DEF ConfigInv, ConfigTypeOK
      <4>4. ~Synced(c, k)
        <5> SUFFICES ASSUME Synced(c, k) PROVE FALSE
          OBVIOUS
        <5>1. Good(rx)
          BY <4>1, <4>3, SyncedIsGood
        <5>2. rx.st = "data"
          BY DEF Synced
        <5>3. QED
          BY <1>2, <4>2, <5>1, <5>2
      <4>5. clean = 0 /\ Spoilt
        BY <3>1, <3>5, <4>1, <4>4 DEF Follows
      <4>6. rx.st = "data"
        BY <4>5 DEF Spoilt
      <4>7. rx' = Idle
        BY <2>1, <4>2, <4>6 DEF Read
      <4>8. clean' = 1
        BY <2>2, <3>5, <4>5
      <4>9. QED
        BY <2>1, <2>2, <3>5, <4>7, <4>8, IdleType DEF LineInv
    <3>6. QED
      BY <3>3, <3>4, <3>5
  <2>6. QED
    BY <2>4, <2>5 DEF ConfigInv
<1>3. QED
  BY <1>1, <1>2

LEMMA DamageStep == ASSUME ConfigInv, Damage PROVE ConfigInv'
<1> DEFINE l == Line("noise", <<>>)
<1>0. /\ phase = "gs0" /\ phase' = "gs0" /\ tx # <<>> /\ tx' = Tail(tx) /\ hurt' = TRUE /\ clean' = 0
      /\ damage < MaxDamage /\ damage' = damage + 1 /\ rx' \in {rx, Read(l)}
      /\ UNCHANGED <<file, text, ocram, saving, sends, upgrades, given, saved>>
  BY DEF Damage
<1>1. l \in LineType /\ l.tag = "noise"
  BY LineIsLine, EmptySeq
<1> HIDE DEF l
<1>2. ConfigTypeOK' /\ GivenInv' /\ SaveInv'
  <2>1. hurt' \in BOOLEAN
    BY <1>0, Zenon
  <2>2. damage' \in 0..MaxDamage /\ clean' \in Nat /\ sends' \in 0..MaxSends
    BY <1>0, ConfigAssumption DEF ConfigInv, ConfigTypeOK
  <2>3. QED
    BY <1>0, <1>1, <2>1, <2>2, LineRead
<1>3. LineInv'
  <2>0. PICK c \in Sent : \E k \in 1..(Len(Text[c]) + 3) : Coming(c, k)
    BY <1>0 DEF ConfigInv, LineInv
  <2>1. PICK k \in 1..(Len(Text[c]) + 3) : Coming(c, k)
    BY <2>0
  <2>2. tx' # <<>> => k + 1 \in 1..(Len(Text[c]) + 3) /\ Coming(c, k + 1)'
    BY <1>0, <2>1, ComingNext
  <2>3. QED
    BY <1>0, <2>2 DEF LineInv
<1>4. QED
  BY <1>2, <1>3 DEF ConfigInv

LEMMA HangUpStep == ASSUME ConfigInv, HangUp PROVE ConfigInv'
<1>1. CASE rx.st = "data" /\ Good(rx) /\ Use(Received(rx))
  BY <1>1, UseReceived DEF HangUp
<1>2. CASE phase' = "dead" /\ NotUsed
  BY <1>2, DeadStep DEF HangUp, NotUsed
<1>3. QED
  BY <1>1, <1>2 DEF HangUp

-----------------------------------------------------------------------------
(* Upgrade packages, and saving.                                           *)

LEMMA UploadKeeps == ASSUME ConfigInv, NEW c \in Configs, Upload(c) PROVE ConfigInv'
<1> DEFINE pkg == Seal(Kernel, Text[c])
           ok  == WellFormed(pkg) /\ UnsealedConfig(pkg) \in Texts /\ Fits(UnsealedConfig(pkg))
<1>0. /\ phase = "main" /\ upgrades < MaxUpgrades /\ upgrades' = upgrades + 1
      /\ given' = given \cup {c} /\ saving.at \in {"none", "failed"}
      /\ UNCHANGED <<phase, file, text, ocram, rx, tx, hurt, sends, damage, clean, saved>>
  BY DEF Upload
<1>1. Text[c] \in Seq(Nat) /\ Text[c] \in Seq(Int) /\ Kernel \in Seq(Nat)
  BY TextType, ConfigAssumption
<1>2. UnsealedConfig(pkg) = Text[c]
  BY <1>1, SealedIsReadBack
<1>3. saving' = IF ok THEN [at |-> "hash", text |-> UnsealedConfig(pkg)] ELSE saving
  BY DEF Upload
<1> HIDE DEF pkg
<1>4. \/ saving' = saving
      \/ saving'.at = "hash" /\ saving'.text = Text[c] /\ Fits(Text[c]) /\ saving' \in SavingType
  BY <1>1, <1>2, <1>3 DEF SavingType
<1>5. ConfigTypeOK'
  <2>1. upgrades' \in 0..MaxUpgrades
    BY <1>0, ConfigAssumption DEF ConfigInv, ConfigTypeOK
  <2>2. saving' \in SavingType
    BY <1>4 DEF ConfigInv, ConfigTypeOK
  <2>3. given' \subseteq Configs
    BY <1>0 DEF ConfigInv, ConfigTypeOK
  <2>4. QED
    BY <1>0, <2>1, <2>2, <2>3 DEF ConfigInv, ConfigTypeOK
<1>6. LineInv'
  BY <1>0 DEF ConfigInv, LineInv
<1>7. GivenInv'
  <2>1. \A u : IsGiven(u) => IsGiven(u)'
    BY <1>0 DEF IsGiven
  <2>2. saving'.at # "none" => IsGiven(saving.text)'
    BY <1>0, <1>4, <2>1 DEF IsGiven, ConfigInv, GivenInv
  <2>3. QED
    BY <1>0, <2>1, <2>2 DEF ConfigInv, GivenInv
<1>8. SaveInv'
  <2>1. saving'.at # "none" => saving'.at \in {"hash", "failed"} /\ Fits(saving.text)'
    BY <1>0, <1>4 DEF Fits, ConfigInv, SaveInv
  <2>2. QED
    BY <1>0, <2>1 DEF ConfigInv, SaveInv, Begun, Copied, Stored
<1>9. QED
  BY <1>5, <1>6, <1>7, <1>8 DEF ConfigInv

(* The three steps of writeConfigToOcram leave all but the on-chip RAM and *)
(* the progress alone; the start of a saved text is never in use then.     *)
LEMMA SavingStep ==
  ASSUME ConfigInv, saving.at # "none", ocram' \in OcramType, saving' \in SavingType,
         saving'.at # "none", saving'.text = saving.text, ocram'.hash \in {ocram.hash, saving.text},
         saving'.at \in {"hash", "text"} => Begun(saving.text)',
         saving'.at = "zero" => Copied(saving.text)', saving'.at = "saved" => Stored(saving.text)',
         UNCHANGED <<phase, file, text, rx, tx, hurt, sends, damage, upgrades, clean, given, saved>>
  PROVE  ConfigInv'
<1>0. phase \in {"main", "dead"} /\ Fits(saving.text) /\ IsGiven(saving.text)
  BY DEF ConfigInv, SaveInv, GivenInv
<1>1. ConfigTypeOK'
  BY DEF ConfigInv, ConfigTypeOK
<1>2. LineInv'
  BY <1>0 DEF ConfigInv, LineInv
<1>3. GivenInv'
  <2>1. \A u : IsGiven(u) <=> IsGiven(u)'
    BY DEF IsGiven
  <2>2. IsGiven(saving.text)'
    BY <1>0 DEF IsGiven
  <2>3. file = NoFile /\ ocram'.hash \in Texts => IsGiven(ocram.hash)'
    <3>1. file = NoFile /\ ocram'.hash \in Texts => IsGiven(ocram'.hash)
      BY <1>0 DEF ConfigInv, GivenInv
    <3>2. QED
      BY <3>1 DEF IsGiven
  <2>4. QED
    BY <1>0, <2>1, <2>2, <2>3 DEF ConfigInv, GivenInv
<1>4. SaveInv'
  BY <1>0 DEF ConfigInv, SaveInv, Fits
<1>5. QED
  BY <1>1, <1>2, <1>3, <1>4 DEF ConfigInv

LEMMA SaveHashStep == ASSUME ConfigInv, SaveHash PROVE ConfigInv'
<1>1. ocram \in OcramType /\ saving \in SavingType /\ saving.at = "hash" /\ saving.text \in Seq(Int)
  BY DEF SaveHash, ConfigInv, ConfigTypeOK, SavingType
<1>2. ocram' \in OcramType /\ ocram'.hash = saving.text
  BY <1>1 DEF SaveHash, OcramType
<1>3. saving' \in SavingType /\ saving'.at = "text" /\ saving'.text = saving.text
  BY <1>1 DEF SaveHash, SavingType
<1>4. Begun(saving.text)'
  BY <1>1, <1>2, <1>3 DEF Begun, ConfigInv, SaveInv, Fits
<1>5. QED
  BY <1>1, <1>2, <1>3, <1>4, SavingStep DEF SaveHash

LEMMA SaveTextStep == ASSUME ConfigInv, SaveText PROVE ConfigInv'
<1>1. /\ ocram \in OcramType /\ saving \in SavingType /\ saving.at = "text"
      /\ saving.text \in Seq(Int) /\ Len(saving.text) \in Nat
      /\ \A i \in 1..Len(saving.text) : saving.text[i] \in Int
      /\ ocram.cells \in [1..MemSize -> Int] /\ Begun(saving.text) /\ MemSize \in Nat
  BY LenProperties, ElementOfSeq, ConfigAssumption
  DEF SaveText, ConfigInv, ConfigTypeOK, SavingType, OcramType, SaveInv
<1> DEFINE C(n) == [i \in 1..MemSize |-> IF i <= n THEN saving.text[i] ELSE ocram.cells[i]]
<1>2. PICK n \in 0..Len(saving.text) :
        /\ ocram' = [ocram EXCEPT !.cells = C(n)]
        /\ saving' = [saving EXCEPT !.at = IF n = Len(saving.text) THEN "zero" ELSE "stopped"]
  BY DEF SaveText
<1>3. C(n) \in [1..MemSize -> Int] /\ \A i \in 1..MemSize : i <= n => C(n)[i] = saving.text[i]
  <2>1. \A i \in 1..MemSize : (IF i <= n THEN saving.text[i] ELSE ocram.cells[i]) \in Int
    BY <1>1
  <2>2. QED
    BY <2>1
<1> HIDE DEF C
<1>4. ocram' \in OcramType /\ ocram'.hash = ocram.hash /\ ocram'.cells = C(n)
  BY <1>1, <1>2, <1>3 DEF OcramType
<1>5. /\ saving' \in SavingType /\ saving'.text = saving.text
      /\ saving'.at = IF n = Len(saving.text) THEN "zero" ELSE "stopped"
  BY <1>1, <1>2 DEF SavingType
<1>6. saving'.at = "zero" => Copied(saving.text)'
  <2> SUFFICES ASSUME n = Len(saving.text) PROVE Copied(saving.text)'
    BY <1>5
  <2>1. \A i \in 1..Len(saving.text) : ocram'.cells[i] = saving.text[i]
    BY <1>1, <1>3, <1>4 DEF Begun
  <2>2. QED
    BY <1>1, <1>4, <1>5, <2>1 DEF Begun, Copied
<1>7. QED
  BY <1>1, <1>4, <1>5, <1>6, SavingStep DEF SaveText

LEMMA SaveZeroStep == ASSUME ConfigInv, SaveZero PROVE ConfigInv'
<1>1. /\ ocram \in OcramType /\ saving \in SavingType /\ saving.at = "zero"
      /\ saving.text \in Seq(Int) /\ Len(saving.text) \in Nat
      /\ ocram.cells \in [1..MemSize -> Int] /\ Copied(saving.text) /\ MemSize \in Nat
  BY LenProperties, ConfigAssumption
  DEF SaveZero, ConfigInv, ConfigTypeOK, SavingType, OcramType, SaveInv
<1> DEFINE C == [i \in 1..MemSize |-> IF i = Len(saving.text) + 1 THEN 0 ELSE ocram.cells[i]]
<1>2. ocram' = [ocram EXCEPT !.cells = C] /\ saving' = [saving EXCEPT !.at = "saved"]
  BY <1>1 DEF SaveZero, Copied, Begun
<1>3. /\ C \in [1..MemSize -> Int]
      /\ \A i \in 1..MemSize : C[i] = IF i = Len(saving.text) + 1 THEN 0 ELSE ocram.cells[i]
  BY <1>1
<1> HIDE DEF C
<1>4. ocram' \in OcramType /\ ocram'.hash = ocram.hash /\ ocram'.cells = C
  BY <1>1, <1>2, <1>3 DEF OcramType
<1>5. saving' \in SavingType /\ saving'.text = saving.text /\ saving'.at = "saved"
  BY <1>1, <1>2 DEF SavingType
<1>6. Stored(saving.text)'
  <2>1. Len(saving.text) + 1 \in 1..MemSize
    BY <1>1 DEF Copied, Begun
  <2>2. \A i \in 1..Len(saving.text) : C[i] = saving.text[i]
    <3> SUFFICES ASSUME NEW i \in 1..Len(saving.text) PROVE C[i] = saving.text[i]
      OBVIOUS
    <3>1. i \in 1..MemSize /\ i # Len(saving.text) + 1
      BY <1>1, <2>1
    <3>2. ocram.cells[i] = saving.text[i]
      BY <1>1 DEF Copied
    <3>3. QED
      BY <1>3, <3>1, <3>2
  <2>3. QED
    BY <1>1, <1>3, <1>4, <1>5, <2>1, <2>2 DEF Begun, Copied, Stored
<1>7. QED
  BY <1>1, <1>4, <1>5, <1>6, SavingStep DEF SaveZero

LEMMA LoadFailsStep == ASSUME ConfigInv, LoadFails PROVE ConfigInv'
<1>1. ocram' = ocram /\ ocram \in OcramType /\ saving.at = "saved" /\ saving \in SavingType
  BY DEF LoadFails, ConfigInv, ConfigTypeOK
<1>2. saving' \in SavingType /\ saving'.text = saving.text /\ saving'.at = "failed"
  BY <1>1 DEF LoadFails, SavingType
<1>3. QED
  BY <1>1, <1>2, SavingStep DEF LoadFails

LEMMA RestartKeeps == ASSUME ConfigInv, Restart PROVE ConfigInv'
<1>0. /\ phase = "main" /\ phase' = "boot" /\ text' = <<>> /\ saving' = NoSave /\ saving'.at = "none"
      /\ UNCHANGED <<file, rx, tx, hurt, sends, damage, upgrades, clean, given>>
      /\ <<>> \in Seq(Int)
  BY NoSaveType, EmptySeq DEF Restart
<1>1. \/ ocram' = ocram /\ saved' = (IF saving.at = "saved" THEN saving.text ELSE <<>>)
      \/ ocram' = Junk /\ saved' = <<>>
  BY DEF Restart
<1>2. ConfigTypeOK'
  <2>1. ocram' \in OcramType /\ saved' \in Seq(Int)
    BY <1>0, <1>1, OcramValues DEF ConfigInv, ConfigTypeOK, SavingType
  <2>2. QED
    BY <1>0, <2>1, NoSaveType DEF ConfigInv, ConfigTypeOK
<1>3. LineInv'
  BY <1>0 DEF ConfigInv, LineInv
<1>4. GivenInv'
  <2>1. \A u : IsGiven(u) <=> IsGiven(u)'
    BY <1>0 DEF IsGiven
  <2>2. file = NoFile /\ ocram'.hash \in Texts => IsGiven(ocram.hash)'
    BY <1>0, <1>1, OcramValues DEF ConfigInv, GivenInv, IsGiven
  <2>3. QED
    BY <1>0, <2>1, <2>2 DEF ConfigInv, GivenInv
<1>5. SaveInv'
  <2>1. saved' # <<>> => saved' \in Texts /\ Stored(saved)'
    <3> SUFFICES ASSUME saved' # <<>> PROVE saved' \in Texts /\ Stored(saved)'
      OBVIOUS
    <3>1. ocram' = ocram /\ saving.at = "saved" /\ saved' = saving.text
      BY <1>1
    <3>2. saving.text \in Texts
      BY <3>1 DEF ConfigInv, ConfigTypeOK, GivenInv, IsGiven, Texts
    <3>3. QED
      BY <3>1, <3>2 DEF ConfigInv, SaveInv, Begun, Copied, Stored
  <2>2. QED
    BY <1>0, <2>1 DEF SaveInv
<1>6. QED
  BY <1>2, <1>3, <1>4, <1>5 DEF ConfigInv

-----------------------------------------------------------------------------
LEMMA ConfigInvNext == ASSUME ConfigInv, ConfigNext PROVE ConfigInv'
  BY LoadFileStep, LoadOcramStep, StartSendingStep, DeliverStep, DamageStep, HangUpStep,
     SaveHashStep, SaveTextStep, SaveZeroStep, LoadFailsStep DEF ConfigNext

LEMMA ConfigStutter == ASSUME ConfigInv, UNCHANGED configVars PROVE ConfigInv'
<1> USE DEF configVars
<1>1. ConfigTypeOK'
  BY DEF ConfigInv, ConfigTypeOK
<1>2. LineInv'
  BY DEF ConfigInv, LineInv, Coming, Follows, Synced, Spoilt
<1>3. GivenInv'
  BY DEF ConfigInv, GivenInv, IsGiven
<1>4. SaveInv'
  BY DEF ConfigInv, SaveInv, Begun, Copied, Stored
<1>5. QED
  BY <1>1, <1>2, <1>3, <1>4 DEF ConfigInv

(* What loadConfig hands to main is the file's configuration or a given    *)
(* one.                                                                    *)
LEMMA ReceivedIsGiven ==
  ASSUME ConfigInv, phase' = "main", Good(rx), Use(Received(rx))
  PROVE  \E c \in given : c \in Configs /\ text' = Text[c]
<1>1. text' = rx.hash.val /\ rx.hash.tag = "hash"
  BY DEF Good, Use
<1>2. QED
  BY <1>1 DEF ConfigInv, ConfigTypeOK, GivenInv, IsGiven

LEMMA MainIsGiven ==
  ASSUME ConfigInv, ConfigNext, phase # "main", phase' = "main"
  PROVE  \E c \in given \cup {file} : c \in Configs /\ text' = Text[c]
<1>1. CASE LoadFile
  BY <1>1 DEF LoadFile, Use, ConfigInv, ConfigTypeOK
<1>2. CASE LoadOcram
  <2>1. file = NoFile /\ ocram.hash = OcramText /\ Use(OcramText)
    BY <1>2 DEF LoadOcram
  <2>2. text' = ocram.hash /\ ocram.hash \in Texts
    BY <2>1 DEF Use
  <2>3. QED
    BY <2>1, <2>2 DEF ConfigInv, ConfigTypeOK, GivenInv, IsGiven
<1>3. CASE Deliver
  <2>1. Good(rx) /\ Use(Received(rx))
    BY <1>3 DEF Deliver, Receive
  <2>2. QED
    BY <2>1, ReceivedIsGiven
<1>4. CASE HangUp
  <2>1. Good(rx) /\ Use(Received(rx))
    BY <1>4 DEF HangUp
  <2>2. QED
    BY <2>1, ReceivedIsGiven
<1>5. CASE (\E c \in Sent : StartSending(c)) \/ Damage \/ SaveHash \/ SaveText \/ SaveZero \/ LoadFails
  <2>1. UNCHANGED phase
    BY <1>5 DEF StartSending, Damage, SaveHash, SaveText, SaveZero, LoadFails
  <2>2. QED
    BY <2>1
<1>6. QED
  BY <1>1, <1>2, <1>3, <1>4, <1>5 DEF ConfigNext
=============================================================================
