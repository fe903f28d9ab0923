---------------------------- MODULE CmdGateProofs ----------------------------
(***************************************************************************)
(* Proofs about CmdGate, for every set of words, every pair of command     *)
(* lists and devices of either kind, and for every value of the bounds.    *)
(*                                                                         *)
(* Every step is told to be one of four (GateSteps): the device reads a    *)
(* key, noteOutput reads a chunk of what the device wrote, a channel is    *)
(* closed, or a goroutine thinks or writes (Talks).  Two invariants stand  *)
(* on that:                                                                *)
(*                                                                         *)
(*   NetInv  at a network device: while a password is awaited the device   *)
(*           is, or will be, at the start of a line (WaitInv), so that the *)
(*           secret and the Enter behind it stand alone (OwnInv);          *)
(*   SyncInv, JudgedInv  at any device: the line that is mirrored becomes  *)
(*           the device's own as soon as its output has been read, unless  *)
(*           the end of a line is still to come, so that a line judged     *)
(*           when nothing was on its way is the line that runs.            *)
(***************************************************************************)
EXTENDS CmdGate, SequenceTheorems, WellFoundedInduction, TLAPS

-----------------------------------------------------------------------------
(* Sequences and numbers.                                                  *)

\* Every non-empty set of naturals has a least element.
LEMMA Least ==
    ASSUME NEW T, T \subseteq Nat, T # {}
    PROVE  \E n \in T : \A m \in T : n <= m
<1> DEFINE R == OpToRel(<, Nat)
<1>1. PICK n \in T : \A m \in T : ~ (<<m, n>> \in R)
  <2>1. IsWellFoundedOn(R, Nat)
    BY NatLessThanWellFounded, Zenon
  <2> HIDE DEF R
  <2> QED
    BY <2>1, WFMin
<1>2. \A m \in Nat, k \in Nat : m < k => <<m, k>> \in R
  BY DEF OpToRel
<1>3. ASSUME NEW m \in T PROVE n <= m
  <2>1. ~ (m < n)
    BY <1>1, <1>2
  <2> QED
    BY <2>1
<1> QED
  BY <1>3

\* What runs from 0 to n by steps of one, if it begins inside a set and never
\* leaves it, stays in it.
LEMMA Climb ==
    ASSUME NEW n \in Nat, NEW Good, 0 \in Good,
           \A i \in 1 .. n : i - 1 \in Good => i \in Good
    PROVE  \A i \in 0 .. n : i \in Good
<1> SUFFICES ASSUME NEW k \in 0 .. n, k \notin Good PROVE FALSE
  OBVIOUS
<1> DEFINE Bad == {i \in 0 .. n : i \notin Good}
<1>1. PICK m \in Bad : \A i \in Bad : m <= i
  <2>1. Bad \subseteq Nat /\ Bad # {}
    OBVIOUS
  <2> HIDE DEF Bad
  <2> QED
    BY <2>1, Least
<1>2. m \in 1 .. n
  BY <1>1
<1>3. m - 1 \in Good
  BY <1>1, <1>2
<1> QED
  BY <1>1, <1>2, <1>3

\* The part of a sequence after its first n elements.
LEMMA RestProperties ==
    ASSUME NEW S, NEW s \in Seq(S), NEW n \in 0 .. Len(s)
    PROVE  /\ SubSeq(s, n + 1, Len(s)) \in Seq(S)
           /\ Len(SubSeq(s, n + 1, Len(s))) = Len(s) - n
           /\ \A i \in 1 .. Len(s) - n : SubSeq(s, n + 1, Len(s))[i] = s[n + i]
<1>1. Len(s) \in Nat /\ \A i \in 1 .. Len(s) : s[i] \in S
  BY LenProperties, ElementOfSeq
<1>2. /\ SubSeq(s, n + 1, Len(s)) \in Seq(S)
      /\ Len(SubSeq(s, n + 1, Len(s))) = IF n + 1 <= Len(s) THEN Len(s) - (n + 1) + 1 ELSE 0
      /\ \A i \in 1 .. Len(s) - (n + 1) + 1 :
            SubSeq(s, n + 1, Len(s))[i] = s[n + 1 + i - 1]
  BY <1>1, SubSeqProperties
<1> QED
  BY <1>1, <1>2

\* ... and those elements.
LEMMA PrefixProperties ==
    ASSUME NEW S, NEW s \in Seq(S), NEW n \in 0 .. Len(s)
    PROVE  /\ SubSeq(s, 1, n) \in Seq(S) /\ Len(SubSeq(s, 1, n)) = n
           /\ \A i \in 1 .. n : SubSeq(s, 1, n)[i] = s[i]
<1>1. Len(s) \in Nat /\ \A i \in 1 .. Len(s) : s[i] \in S
  BY LenProperties, ElementOfSeq
<1>2. /\ SubSeq(s, 1, n) \in Seq(S)
      /\ Len(SubSeq(s, 1, n)) = IF 1 <= n THEN n - 1 + 1 ELSE 0
      /\ \A i \in 1 .. n - 1 + 1 : SubSeq(s, 1, n)[i] = s[1 + i - 1]
  BY <1>1, SubSeqProperties
<1> QED
  BY <1>1, <1>2

LEMMA FrontProperties ==
    ASSUME NEW S, NEW s \in Seq(S), s # << >>
    PROVE  /\ Front(s) \in Seq(S) /\ Len(Front(s)) = Len(s) - 1
           /\ \A i \in 1 .. Len(s) - 1 : Front(s)[i] = s[i]
<1>1. Len(s) \in Nat \ {0}
  BY EmptySeq
<1>2. Len(s) - 1 \in 0 .. Len(s)
  BY <1>1
<1> QED
  BY <1>2, PrefixProperties DEF Front

-----------------------------------------------------------------------------
(* Types.                                                                  *)

Text == Words \cup Prompts
Output == Text \cup {"NL", "BS"}

Pcs == {"read", "key", "force", "write", "line", "refuse", "cancel", "arm", "leave",
        "pass", "end", "gone"}
InputRow == [pc : Pcs, key : Keys \cup {""}, cmd : Seq(Text), by : Authors, settled : BOOLEAN]
OutputRow == [pc : {"read", "inject", "send", "write", "gone"}]
DeviceRow == [mode : DOMAIN Prompt \cup {"gone"}, line : Seq(Words), tries : 0 .. MaxTries]
RanRow == [line : Seq(Words), by : Authors, settled : BOOLEAN]

\* TypeOK, and a key that is being handled is a key.
GateTypeInv ==
    /\ gate \in GateType
    /\ input \in InputRow /\ (input.pc = "key" => input.key \in Keys)
    /\ output \in OutputRow
    /\ up \in Seq(Sent) /\ down \in Seq(Output)
    /\ device \in DeviceRow
    /\ ending \in {"no", "scheduled", "closed"} /\ keys \in 0 .. MaxKeys
    /\ ran \in RanRow

\* Words are neither control keys nor anything else the device or gate writes.
LEMMA WordsAreWords ==
    /\ Words \cap Prompts = {}
    /\ \A w \in Words : w \notin {"", "NL", "BS", "CR", "LF", "DEL", "^C"}
    /\ Secret \in Words /\ {"CR", "LF", "DEL"} \cap Words = {}
    /\ \A k \in Keys : k \in Words \/ k \in {"CR", "LF", "DEL"}
BY GateAssumption DEF Keys

\* The tokens a line can be mirrored from; what a token does to the gate.
LEMMA MirroredKeeps ==
    ASSUME NEW g \in GateType, NEW token \in Output
    PROVE  /\ Mirrored(g, token) \in GateType
           /\ AtPrompt(g) \in GateType /\ AtPrompt(g).devLine = g.devLine
           /\ Mirrored(g, token).expectEnablePass =>
                 /\ g.expectEnablePass
                 /\ Mirrored(g, token).execPrivileged = g.execPrivileged
           /\ AtPrompt(g).expectEnablePass =>
                 g.expectEnablePass /\ AtPrompt(g).execPrivileged = g.execPrivileged
<1> USE DEF GateType
<1>1. /\ AtPrompt(g) \in GateType /\ AtPrompt(g).devLine = g.devLine
      /\ AtPrompt(g).expectEnablePass =>
            g.expectEnablePass /\ AtPrompt(g).execPrivileged = g.execPrivileged
  BY DEF AtPrompt, ResetEnableFlow
<1>2. << >> \in Seq(Words \cup Prompts)
  BY EmptySeq
<1>3. CASE token = "NL"
  BY <1>1, <1>2, <1>3 DEF Mirrored
<1>4. CASE token = "BS"
  <2>1. g.devLine # << >> => Front(g.devLine) \in Seq(Words \cup Prompts)
    BY FrontProperties
  <2> QED
    BY <1>1, <1>4, <2>1 DEF Mirrored
<1>5. CASE token \notin {"NL", "BS"}
  <2>1. token \in Words \cup Prompts
    BY <1>5 DEF Output, Text
  <2>2. Append(g.devLine, token) \in Seq(Words \cup Prompts)
    BY <2>1, AppendProperties
  <2> QED
    BY <1>1, <1>5, <2>2 DEF Mirrored
<1> QED
  BY <1>1, <1>3, <1>4, <1>5

\* The recursion over a chunk is defined: a function that follows it to some
\* length extends by one.
LEMMA MirroredByDef ==
    ASSUME NEW chunk \in Seq(Output)
    PROVE  /\ MirroredBy(chunk)[0] = gate
           /\ \A i \in 1 .. Len(chunk) :
                 MirroredBy(chunk)[i] = Mirrored(MirroredBy(chunk)[i - 1], chunk[i])
<1> DEFINE Body(f) == [i \in 0 .. Len(chunk) |->
                          IF i = 0 THEN gate ELSE Mirrored(f[i - 1], chunk[i])]
           Follows(f, n) == \A i \in 0 .. n :
                               f[i] = IF i = 0 THEN gate ELSE Mirrored(f[i - 1], chunk[i])
           Reached == {n \in 0 .. Len(chunk) : \E f : Follows(f, n)}
<1>1. Len(chunk) \in Nat
  BY LenProperties
<1>2. 0 \in Reached
  <2> DEFINE f == [i \in {0} |-> gate]
  <2>1. Follows(f, 0)
    OBVIOUS
  <2> HIDE DEF f, Follows
  <2> QED
    BY <1>1, <2>1
<1>3. ASSUME NEW n \in 1 .. Len(chunk), n - 1 \in Reached
      PROVE  n \in Reached
  <2>1. PICK f : Follows(f, n - 1)
    BY <1>3
  <2> DEFINE h == [i \in 0 .. n |-> IF i = n THEN Mirrored(f[n - 1], chunk[n]) ELSE f[i]]
  <2>2. \A i \in 0 .. n : h[i] = IF i = 0 THEN gate ELSE Mirrored(h[i - 1], chunk[i])
    <3> SUFFICES ASSUME NEW i \in 0 .. n
                 PROVE  h[i] = IF i = 0 THEN gate ELSE Mirrored(h[i - 1], chunk[i])
      OBVIOUS
    <3>1. i \in Nat /\ n \in Nat /\ n > 0
      OBVIOUS
    <3>2. CASE i = n
      <4>1. h[i - 1] = f[n - 1] /\ h[i] = Mirrored(f[n - 1], chunk[n])
        BY <3>1, <3>2
      <4> QED
        BY <3>1, <3>2, <4>1
    <3>3. CASE i < n
      <4>1. h[i] = f[i] /\ (i # 0 => h[i - 1] = f[i - 1])
        BY <3>1, <3>3
      <4>2. i \in 0 .. n - 1
        BY <3>1, <3>3
      <4> QED
        BY <2>1, <4>1, <4>2
    <3> QED
      BY <3>1, <3>2, <3>3
  <2> HIDE DEF h
  <2>3. Follows(h, n)
    BY <2>2
  <2> QED
    BY <1>3, <2>3
<1>4. Len(chunk) \in Reached
  <2> HIDE DEF Reached
  <2>1. \A i \in 0 .. Len(chunk) : i \in Reached
    BY <1>1, <1>2, <1>3, Climb
  <2> QED
    BY <1>1, <2>1
<1>5. PICK f : Follows(f, Len(chunk))
  BY <1>4
<1> DEFINE e == [i \in 0 .. Len(chunk) |-> f[i]]
<1>6. e = Body(e)
  <2>1. \A i \in 0 .. Len(chunk) :
           e[i] = IF i = 0 THEN gate ELSE Mirrored(e[i - 1], chunk[i])
    <3> SUFFICES ASSUME NEW i \in 0 .. Len(chunk)
                 PROVE  e[i] = IF i = 0 THEN gate ELSE Mirrored(e[i - 1], chunk[i])
      OBVIOUS
    <3>1. e[i] = f[i] /\ (i # 0 => e[i - 1] = f[i - 1])
      BY <1>1
    <3> QED
      BY <1>5, <3>1
  <2> QED
    BY <2>1, Zenon
<1> DEFINE m == CHOOSE x : x = Body(x)
<1> HIDE DEF e
<1>7. m = Body(m)
  BY <1>6, Zenon
<1>8. MirroredBy(chunk) = m
  BY Zenon DEF MirroredBy
<1> HIDE DEF m
<1>9. \A i \in 0 .. Len(chunk) :
         m[i] = IF i = 0 THEN gate ELSE Mirrored(m[i - 1], chunk[i])
  BY <1>7, Zenon
<1> QED
  BY <1>1, <1>8, <1>9

\* What one token does to the line a terminal shows.
Show(line, token) ==
    CASE token = "NL" -> << >>
      [] token = "BS" -> IF line = << >> THEN line ELSE Front(line)
      [] OTHER -> Append(line, token)

LEMMA MirroredShows ==
    ASSUME NEW g \in GateType, NEW token \in Output
    PROVE  Mirrored(g, token).devLine = Show(g.devLine, token)
<1>1. AtPrompt(g) \in GateType /\ AtPrompt(g).devLine = g.devLine
  BY MirroredKeeps
<1> QED
  BY <1>1 DEF Mirrored, Show, GateType

\* A token leaves out of the line what it is not.
LEMMA ShowAdds ==
    ASSUME NEW line \in Seq(Text), NEW token \in Output, NEW other,
           token # other, ~Has(line, other)
    PROVE  ~Has(Show(line, token), other)
<1>0. Len(line) \in Nat
  BY LenProperties
<1>1. CASE token = "NL"
  BY <1>1 DEF Show, Has
<1>2. CASE token = "BS"
  <2>1. CASE line = << >>
    BY <1>2, <2>1 DEF Show
  <2>2. CASE line # << >>
    <3>1. /\ Show(line, token) = Front(line) /\ Len(Front(line)) = Len(line) - 1
          /\ \A i \in 1 .. Len(line) - 1 : Front(line)[i] = line[i]
      BY <1>2, <2>2, FrontProperties DEF Show
    <3> QED
      BY <1>0, <3>1 DEF Has
  <2> QED
    BY <2>1, <2>2
<1>3. CASE token \notin {"NL", "BS"}
  <2>1. Show(line, token) = Append(line, token) /\ token \in Text
    BY <1>3 DEF Show, Output
  <2>2. /\ Len(Append(line, token)) = Len(line) + 1
        /\ \A i \in 1 .. Len(line) : Append(line, token)[i] = line[i]
        /\ Append(line, token)[Len(line) + 1] = token
    BY <2>1, AppendProperties
  <2>3. \A i \in 1 .. Len(line) + 1 : i \in 1 .. Len(line) \/ i = Len(line) + 1
    BY <1>0
  <2> QED
    BY <2>1, <2>2, <2>3 DEF Has
<1> QED
  BY <1>1, <1>2, <1>3

\* What noteOutput does to the gate, whatever the chunk: a prompt only ends the
\* wait for a password, and the mirrored line is the one a terminal shows.
LEMMA MirroredAllKeeps ==
    ASSUME gate \in GateType, NEW chunk \in Seq(Output)
    PROVE  /\ MirroredAll(chunk) \in GateType
           /\ MirroredAll(chunk).expectEnablePass =>
                 /\ gate.expectEnablePass
                 /\ MirroredAll(chunk).execPrivileged = gate.execPrivileged
           /\ \A other : ~Has(chunk, other) /\ ~Has(gate.devLine, other)
                 => ~Has(MirroredAll(chunk).devLine, other)
           /\ \A F : /\ F[0] = gate.devLine
                     /\ \A i \in 1 .. Len(chunk) : F[i] = Show(F[i - 1], chunk[i])
                 => MirroredAll(chunk).devLine = F[Len(chunk)]
           /\ chunk # << >> /\ chunk[Len(chunk)] \in {">", "#"}
                 => ~MirroredAll(chunk).expectEnablePass
<1> DEFINE f == MirroredBy(chunk)
           n == Len(chunk)
           g == MirroredAll(chunk)
<1>1. n \in Nat /\ \A i \in 1 .. n : chunk[i] \in Output
  BY LenProperties, ElementOfSeq
<1>2. f[0] = gate /\ \A i \in 1 .. n : f[i] = Mirrored(f[i - 1], chunk[i])
  BY MirroredByDef
<1>3. g = AtPrompt(f[n])
  BY DEF MirroredAll
<1> HIDE DEF f, g
<1> DEFINE Kept(h) == /\ h \in GateType
                      /\ h.expectEnablePass =>
                            gate.expectEnablePass /\ h.execPrivileged = gate.execPrivileged
<1>4. \A i \in 0 .. n : Kept(f[i])
  <2> DEFINE Good == {i \in 0 .. n : Kept(f[i])}
  <2>1. 0 \in Good
    BY <1>1, <1>2
  <2>2. ASSUME NEW i \in 1 .. n, i - 1 \in Good PROVE i \in Good
    <3>1. Kept(f[i - 1]) /\ chunk[i] \in Output
      BY <1>1, <2>2
    <3>2. /\ Mirrored(f[i - 1], chunk[i]) \in GateType
          /\ Mirrored(f[i - 1], chunk[i]).expectEnablePass =>
                /\ f[i - 1].expectEnablePass
                /\ Mirrored(f[i - 1], chunk[i]).execPrivileged = f[i - 1].execPrivileged
      BY <3>1, MirroredKeeps
    <3>3. f[i] = Mirrored(f[i - 1], chunk[i])
      BY <1>2
    <3>4. Kept(f[i])
      BY <3>1, <3>2, <3>3
    <3> QED
      BY <1>1, <3>4
  <2> HIDE DEF Good
  <2>3. \A i \in 0 .. n : i \in Good
    BY <1>1, <2>1, <2>2, Climb
  <2> QED
    BY <2>3 DEF Good
<1>5. Kept(f[n])
  BY <1>1, <1>4
<1>6. Kept(g) /\ g.devLine = f[n].devLine
  BY <1>3, <1>5, MirroredKeeps, WordsAreWords DEF Output
<1>7. ASSUME NEW other, ~Has(chunk, other), ~Has(gate.devLine, other)
      PROVE  ~Has(g.devLine, other)
  <2> DEFINE Good == {i \in 0 .. n : ~Has(f[i].devLine, other)}
  <2>1. 0 \in Good
    BY <1>1, <1>2, <1>7
  <2>2. ASSUME NEW i \in 1 .. n, i - 1 \in Good PROVE i \in Good
    <3>1. chunk[i] \in Output /\ chunk[i] # other
      BY <1>1, <1>7 DEF Has
    <3>2. i - 1 \in 0 .. n /\ ~Has(f[i - 1].devLine, other)
      BY <1>1, <2>2
    <3>3. f[i - 1] \in GateType
      BY <1>4, <3>2
    <3>4. f[i].devLine = Show(f[i - 1].devLine, chunk[i])
      BY <1>2, <3>1, <3>3, MirroredShows
    <3>5. f[i - 1].devLine \in Seq(Text)
      BY <3>3 DEF GateType, Text
    <3>6. ~Has(f[i].devLine, other)
      BY <3>1, <3>2, <3>4, <3>5, ShowAdds
    <3> QED
      BY <1>1, <3>6
  <2> HIDE DEF Good
  <2>3. \A i \in 0 .. n : i \in Good
    BY <1>1, <2>1, <2>2, Climb
  <2>4. n \in Good
    BY <1>1, <2>3
  <2> QED
    BY <1>6, <2>4 DEF Good
<1>8. ASSUME NEW F, F[0] = gate.devLine,
             \A i \in 1 .. n : F[i] = Show(F[i - 1], chunk[i])
      PROVE  g.devLine = F[n]
  <2> DEFINE Good == {i \in 0 .. n : f[i].devLine = F[i]}
  <2>1. 0 \in Good
    BY <1>1, <1>2, <1>8
  <2>2. ASSUME NEW i \in 1 .. n, i - 1 \in Good PROVE i \in Good
    <3>1. i - 1 \in 0 .. n /\ f[i - 1].devLine = F[i - 1] /\ chunk[i] \in Output
      BY <1>1, <2>2
    <3>2. f[i].devLine = Show(f[i - 1].devLine, chunk[i])
      BY <1>2, <1>4, <3>1, MirroredShows
    <3> QED
      BY <1>1, <1>8, <3>1, <3>2
  <2> HIDE DEF Good
  <2>3. \A i \in 0 .. n : i \in Good
    BY <1>1, <2>1, <2>2, Climb
  <2>4. n \in Good
    BY <1>1, <2>3
  <2> QED
    BY <1>6, <2>4 DEF Good
<1>9. ASSUME chunk # << >>, chunk[n] \in {">", "#"}
      PROVE  ~g.expectEnablePass
  <2>1. n \in 1 .. n /\ n - 1 \in 0 .. n
    BY <1>1, <1>9, EmptySeq
  <2>2. f[n - 1] \in GateType /\ chunk[n] \in Text /\ chunk[n] \notin {"NL", "BS"}
    BY <1>4, <1>9, <2>1 DEF Text, Prompts
  <2>3. f[n] = [f[n - 1] EXCEPT !.devLine = Append(f[n - 1].devLine, chunk[n])]
    BY <1>2, <2>1, <2>2 DEF Mirrored
  <2>4. f[n].devLine = Append(f[n - 1].devLine, chunk[n])
    BY <2>2, <2>3 DEF GateType
  <2>5. EndsWith(f[n].devLine, chunk[n])
    <3>1. f[n - 1].devLine \in Seq(Text)
      BY <2>2 DEF GateType, Text
    <3>2. /\ Len(f[n].devLine) = Len(f[n - 1].devLine) + 1
          /\ f[n].devLine[Len(f[n - 1].devLine) + 1] = chunk[n]
      BY <2>2, <2>4, <3>1, AppendProperties
    <3>3. Len(f[n - 1].devLine) \in Nat
      BY <3>1, LenProperties
    <3> QED
      BY <3>2, <3>3 DEF EndsWith
  <2>6. EndsWith(f[n].devLine, "#") \/ EndsWith(f[n].devLine, ">")
    BY <1>9, <2>5
  <2> QED
    BY <1>3, <1>5, <2>6 DEF AtPrompt, ResetEnableFlow, GateType
<1> QED
  BY <1>6, <1>7, <1>8, <1>9 DEF g

LEMMA AfterPromptType ==
    ASSUME NEW line \in Seq(Text)
    PROVE  AfterPrompt(line) \in Seq(Text)
<1> DEFINE cut == {i \in 1 .. Len(line) : line[i] \in {">", "#", "$"}}
           last == CHOOSE i \in cut : \A j \in cut : j <= i
<1>1. Len(line) \in Nat
  BY LenProperties
<1>2. CASE cut = {}
  BY <1>2 DEF AfterPrompt
<1>3. CASE cut # {}
  <2> DEFINE T == {Len(line) - i : i \in cut}
  <2>1. T \subseteq Nat /\ T # {}
    BY <1>1, <1>3
  <2>2. PICK n \in T : \A m \in T : n <= m
    <3> HIDE DEF T
    <3> QED
      BY <2>1, Least
  <2>3. PICK i \in cut : n = Len(line) - i
    BY <2>2
  <2>4. \A j \in cut : j <= i
    <3> SUFFICES ASSUME NEW j \in cut PROVE j <= i
      OBVIOUS
    <3>1. Len(line) - j \in T
      OBVIOUS
    <3>2. n <= Len(line) - j
      <4> HIDE DEF T
      <4> QED
        BY <2>2, <3>1
    <3>3. i \in Nat /\ j \in Nat
      OBVIOUS
    <3> HIDE DEF T, cut
    <3> QED
      BY <1>1, <2>3, <3>2, <3>3
  <2>5. last \in cut
    BY <2>3, <2>4
  <2>6. AfterPrompt(line) = SubSeq(line, last + 1, Len(line))
    BY <1>3 DEF AfterPrompt
  <2> HIDE DEF last
  <2>7. last \in 0 .. Len(line)
    BY <1>1, <2>5
  <2> QED
    BY <2>6, <2>7, RestProperties
<1> QED
  BY <1>2, <1>3

LEMMA SentTypes ==
    /\ \A k \in Keys \cup {"^C"} : Typed(k) \in Sent
    /\ \A by \in Authors, settled \in BOOLEAN : Enter(by, settled) \in Sent
    /\ Typed(Secret) \in Sent /\ Secret \in Keys
BY GateAssumption DEF Sent, Typed, Enter, Keys, Authors

LEMMA ReadingType == Reading \in InputRow /\ Reading.pc # "key"
<1>1. << >> \in Seq(Text)
  BY EmptySeq
<1> QED
  BY <1>1 DEF Reading, InputRow, Pcs, Authors

LEMMA WriteType ==
    ASSUME up \in Seq(Sent), NEW items \in Seq(Sent), Write(items)
    PROVE  up' \in Seq(Sent)
BY ConcatProperties DEF Write

LEMMA WriteOneType ==
    ASSUME up \in Seq(Sent), NEW x \in Sent, Write(<<x>>)
    PROVE  up' \in Seq(Sent)
<1>1. <<x>> \in Seq(Sent)
  OBVIOUS
<1> QED
  BY <1>1, WriteType

LEMMA WriteSecretType ==
    ASSUME up \in Seq(Sent), NEW by \in Authors, NEW settled \in BOOLEAN,
           Write(<<Typed(Secret), Enter(by, settled)>>)
    PROVE  up' \in Seq(Sent)
<1>1. Typed(Secret) \in Sent /\ Enter(by, settled) \in Sent
  BY SentTypes
<1>2. <<Typed(Secret), Enter(by, settled)>> \in Seq(Sent)
  BY <1>1
<1> QED
  BY <1>2, WriteType

\* What noteOutput changes after the mirror: it notes that a prompt asks.
Asked(g, asks, inject, sudo) ==
    [g EXCEPT !.ignoreLine = @ \/ asks, !.injectEnableOnEnter = @ \/ inject,
              !.expectEnablePass = @ \/ sudo, !.enableInjected = @ /\ ~sudo]

LEMMA AskedType ==
    ASSUME NEW g \in GateType, NEW asks \in BOOLEAN, NEW inject \in BOOLEAN, NEW sudo \in BOOLEAN
    PROVE  /\ Asked(g, asks, inject, sudo) \in GateType
           /\ Asked(g, asks, inject, sudo).devLine = g.devLine
           /\ Asked(g, asks, inject, sudo).execPrivileged = g.execPrivileged
           /\ Asked(g, asks, inject, sudo).expectEnablePass <=> g.expectEnablePass \/ sudo
BY DEF Asked, GateType

\* noteOutput reads a chunk of what the device wrote, and injects only while a
\* password is awaited.
LEMMA NoteOutputReads ==
    ASSUME GateTypeInv, NoteOutput
    PROVE  \E n \in 1 .. Len(down), asks \in BOOLEAN, inject \in BOOLEAN, sudo \in BOOLEAN :
             LET g == MirroredAll(SubSeq(down, 1, n))
             IN  /\ SubSeq(down, 1, n) \in Seq(Output) /\ g \in GateType
                 /\ gate' = Asked(g, asks, inject, sudo)
                 /\ sudo => Has(g.devLine, "[sudo]")
                 /\ inject /\ ~sudo => g.expectEnablePass /\ ~g.execPrivileged
                 /\ output' = [pc |-> IF inject THEN "inject" ELSE "read"]
                 /\ down' = SubSeq(down, n + 1, Len(down)) /\ down' \in Seq(Output)
                 /\ UNCHANGED <<input, up, device, ending, ran, keys>>
<1>0. Len(down) \in Nat /\ MaxChunk \in Nat
  BY GateAssumption, LenProperties DEF GateTypeInv
<1>1. PICK n \in 1 .. MaxChunk :
        LET g == MirroredAll(SubSeq(down, 1, n))
            asks == Has(g.devLine, "password:") \/ Has(g.devLine, "[sudo]")
            enable == asks /\ g.expectEnablePass /\ ~g.execPrivileged /\ Credential
                      /\ ~g.enableInjected
            sudo == Has(g.devLine, "[sudo]") /\ PortalPassword
        IN  /\ output.pc = "read" /\ n <= Len(down) /\ ending # "closed"
            /\ gate' = [g EXCEPT !.ignoreLine = @ \/ asks,
                                 !.injectEnableOnEnter = @ \/ enable \/ sudo,
                                 !.expectEnablePass = @ \/ sudo,
                                 !.enableInjected = @ /\ ~sudo]
            /\ output' = [pc |-> IF enable \/ sudo THEN "inject" ELSE "read"]
            /\ down' = SubSeq(down, n + 1, Len(down))
            /\ UNCHANGED <<input, up, device, ending, ran, keys>>
  BY DEF NoteOutput
<1>2. n \in 1 .. Len(down) /\ n \in 0 .. Len(down)
  BY <1>0, <1>1
<1> DEFINE g == MirroredAll(SubSeq(down, 1, n))
           asks == Has(g.devLine, "password:") \/ Has(g.devLine, "[sudo]")
           sudo == Has(g.devLine, "[sudo]") /\ PortalPassword
           enable == asks /\ g.expectEnablePass /\ ~g.execPrivileged /\ Credential
                     /\ ~g.enableInjected
<1>3. SubSeq(down, 1, n) \in Seq(Output) /\ down' \in Seq(Output)
  BY <1>1, <1>2, PrefixProperties, RestProperties DEF GateTypeInv
<1>4. g \in GateType
  BY <1>3, MirroredAllKeeps DEF GateTypeInv
<1>5. asks \in BOOLEAN /\ (enable \/ sudo) \in BOOLEAN /\ sudo \in BOOLEAN
  BY DEF Has
<1>6. gate' = Asked(g, asks, enable \/ sudo, sudo)
  BY <1>1, Zenon DEF Asked
<1>7. /\ output' = [pc |-> IF enable \/ sudo THEN "inject" ELSE "read"]
      /\ down' = SubSeq(down, n + 1, Len(down))
      /\ UNCHANGED <<input, up, device, ending, ran, keys>>
  BY <1>1
<1>8. sudo => Has(g.devLine, "[sudo]")
  OBVIOUS
<1>9. (enable \/ sudo) /\ ~sudo => g.expectEnablePass /\ ~g.execPrivileged
  OBVIOUS
<1> HIDE DEF g, asks, sudo, enable
<1>10. g = MirroredAll(SubSeq(down, 1, n))
  BY DEF g
<1> QED
  BY <1>2, <1>3, <1>4, <1>5, <1>6, <1>7, <1>8, <1>9, <1>10

\* The goroutine that reads the device.
LEMMA OutputType ==
    ASSUME GateTypeInv, OutputStep
    PROVE  GateTypeInv'
<1> USE DEF GateTypeInv
<1>1. CASE NoteOutput
  <2>1. PICK n \in 1 .. Len(down), asks \in BOOLEAN, inject \in BOOLEAN, sudo \in BOOLEAN :
             /\ MirroredAll(SubSeq(down, 1, n)) \in GateType
             /\ gate' = Asked(MirroredAll(SubSeq(down, 1, n)), asks, inject, sudo)
             /\ output' = [pc |-> IF inject THEN "inject" ELSE "read"]
             /\ down' \in Seq(Output)
             /\ UNCHANGED <<input, up, device, ending, ran, keys>>
    BY <1>1, NoteOutputReads
  <2>2. gate' \in GateType /\ output' \in OutputRow
    BY <2>1, AskedType DEF OutputRow
  <2> QED
    BY <2>1, <2>2
<1>2. CASE TryAutoInjectEnable
  BY <1>2 DEF TryAutoInjectEnable, OutputRow, GateType
<1>3. CASE SendAuto
  <2>1. gate' \in GateType
    BY <1>3 DEF SendAuto, Sending, GateType
  <2>2. output' \in OutputRow
    <3>1. output' = [pc |-> "write"] \/ output' = [pc |-> "read"]
      BY <1>3 DEF SendAuto
    <3> QED
      BY <3>1 DEF OutputRow
  <2> QED
    BY <1>3, <2>1, <2>2 DEF SendAuto
<1>4. CASE WriteAuto
  <2>1. Write(<<Typed(Secret), Enter("auto", input.pc \notin Entering)>>)
    BY <1>4 DEF WriteAuto
  <2>2. up' \in Seq(Sent)
    BY <2>1, WriteSecretType DEF Authors, Entering
  <2> QED
    BY <1>4, <2>2 DEF WriteAuto, OutputRow
<1>5. CASE DeviceEnds
  BY <1>5, EmptySeq DEF DeviceEnds, Close, OutputRow
<1> QED
  BY <1>1, <1>2, <1>3, <1>4, <1>5 DEF OutputStep

\* The goroutine that reads the user.
LEMMA InputType ==
    ASSUME GateTypeInv, InputStep
    PROVE  GateTypeInv'
<1> USE DEF GateTypeInv
<1>r. << >> \in Seq(Text)
  BY EmptySeq
<1>1. CASE SkipLF
  <2>1. gate' \in GateType
    BY <1>1 DEF SkipLF, GateType
  <2> QED
    BY <1>1, <2>1, ReadingType DEF SkipLF
<1>2. CASE PressEnter
  <2>1. gate' \in GateType
    BY <1>2 DEF PressEnter, GateType
  <2>2. input' \in InputRow /\ input'.pc # "key"
    BY <1>2 DEF PressEnter, InputRow, Pcs
  <2> QED
    BY <1>2, <2>1, <2>2 DEF PressEnter
<1>3. CASE PassKey
  <2>1. input' = Reading /\ UNCHANGED <<output, down, device, ending, ran, keys>>
    BY <1>3 DEF PassKey
  <2>2. up' \in Seq(Sent)
    <3>1. CASE UNCHANGED up
      BY <3>1
    <3>2. CASE Write(<<Typed(input.key)>>)
      BY <1>3, <3>2, SentTypes, WriteOneType DEF PassKey
    <3> QED
      BY <1>3, <3>1, <3>2 DEF PassKey
  <2>3. gate' \in GateType
    <3>1. CASE UNCHANGED gate
      BY <3>1
    <3>2. CASE gate' = [gate EXCEPT !.userTyped =
                 IF input.key # "DEL" THEN Append(@, input.key)
                 ELSE IF @ = << >> THEN @ ELSE Front(@)]
      <4>1. gate.userTyped \in Seq(Words)
        BY DEF GateType
      <4>2. input.key # "DEL" => input.key \in Words
        BY <1>3, WordsAreWords DEF PassKey
      <4>3. (IF input.key # "DEL" THEN Append(gate.userTyped, input.key)
             ELSE IF gate.userTyped = << >> THEN gate.userTyped
             ELSE Front(gate.userTyped)) \in Seq(Words)
        BY <4>1, <4>2, AppendProperties, FrontProperties
      <4> QED
        BY <3>2, <4>3 DEF GateType
    <3> QED
      BY <1>3, <3>1, <3>2 DEF PassKey
  <2> QED
    BY <2>1, <2>2, <2>3, ReadingType
<1>4. CASE SendForced
  <2>1. gate' \in GateType
    BY <1>4 DEF SendForced, Sending, GateType
  <2>2. input' \in InputRow /\ input'.pc # "key"
    BY <1>4, ReadingType DEF SendForced, InputRow, Pcs
  <2> QED
    BY <1>4, <2>1, <2>2 DEF SendForced
<1>5. CASE WriteForced
  <2>1. up' \in Seq(Sent)
    BY <1>5, WriteSecretType DEF WriteForced, Authors
  <2> QED
    BY <1>5, <2>1, ReadingType DEF WriteForced
<1>6. CASE LineEnd
  <2>1. CurrentCommand \in Seq(Text)
    <3>1. gate.devLine \in Seq(Text) /\ gate.userTyped \in Seq(Text)
      BY SeqMonotonic DEF GateType, Text
    <3> QED
      BY <3>1, AfterPromptType DEF CurrentCommand
  <2>2. gate' \in GateType
    <3>1. gate' = [gate EXCEPT !.ignoreLine = FALSE, !.userTyped = << >>]
      BY <1>6 DEF LineEnd
    <3> QED
      BY <3>1, EmptySeq DEF GateType
  <2> DEFINE step == [input EXCEPT
                        !.pc = IF gate.ignoreLine THEN "pass" ELSE NextOf(CurrentCommand),
                        !.by = IF gate.ignoreLine THEN "ignored" ELSE "judged",
                        !.cmd = IF gate.ignoreLine THEN << >> ELSE CurrentCommand,
                        !.settled = Quiet]
  <2>3. input' = Reading \/ input' = step
    BY <1>6 DEF LineEnd
  <2>4. NextOf(CurrentCommand) \in {"refuse", "arm", "leave"}
    BY DEF NextOf
  <2>5. Quiet \in BOOLEAN
    BY DEF Quiet
  <2>6. CASE input' = step
    <3>1. input' \in InputRow /\ input'.pc # "key"
      <4> HIDE DEF Quiet
      <4> QED
        BY <1>r, <2>1, <2>4, <2>5, <2>6 DEF InputRow, Pcs, Authors
    <3> QED
      BY <1>6, <2>2, <3>1 DEF LineEnd
  <2>7. CASE input' = Reading
    BY <1>6, <2>2, <2>7, ReadingType DEF LineEnd
  <2> QED
    BY <2>3, <2>6, <2>7
<1>7. CASE Refuse
  <2>1. gate' \in GateType
    BY <1>7, <1>r, EmptySeq DEF Refuse, GateType, Text
  <2>2. input' \in InputRow /\ input'.pc # "key"
    BY <1>7 DEF Refuse, InputRow, Pcs
  <2> QED
    BY <1>7, <2>1, <2>2 DEF Refuse
<1>8. CASE Cancel
  <2>1. up' \in Seq(Sent)
    BY <1>8, SentTypes, WriteOneType DEF Cancel
  <2> QED
    BY <1>8, <2>1, ReadingType DEF Cancel
<1>9. CASE Arm
  <2>1. gate' \in GateType
    BY <1>9, <1>r DEF Arm, GateType, Text
  <2>2. input' \in InputRow /\ input'.pc # "key"
    BY <1>9 DEF Arm, InputRow, Pcs
  <2> QED
    BY <1>9, <2>1, <2>2 DEF Arm
<1>10. CASE Leave
  <2>1. input' \in InputRow /\ input'.pc # "key"
    BY <1>10 DEF Leave, InputRow, Pcs
  <2> QED
    BY <1>10, <2>1 DEF Leave
<1>11. CASE Pass \/ PassAndEnd
  <2>1. Enter(input.by, input.settled) \in Sent
    BY SentTypes DEF InputRow
  <2>2. up' \in Seq(Sent)
    BY <1>11, <2>1, WriteOneType DEF Pass, PassAndEnd
  <2>3. ending' \in {"no", "scheduled", "closed"}
    BY <1>11 DEF Pass, PassAndEnd
  <2>4. UNCHANGED <<gate, output, down, device, ran, keys>> /\ input' = Reading
    BY <1>11 DEF Pass, PassAndEnd
  <2> QED
    BY <2>2, <2>3, <2>4, ReadingType
<1> QED
  BY <1>1, <1>2, <1>3, <1>4, <1>5, <1>6, <1>7, <1>8, <1>9, <1>10, <1>11 DEF InputStep

\* The modes of a network device.
NetModes == {"user", "exec", "enable"}

\* What the device may do with the key x: a word, DEL, or the end of a line.
ReadsWord(x) ==
    /\ x.key \in Words
    /\ device' = [device EXCEPT !.line = Append(@, x.key)]
    /\ down' = IF device.mode \in Asking THEN down ELSE Append(down, x.key)
    /\ UNCHANGED ran
ReadsDel(x) ==
    /\ x.key = "DEL"
    /\ device' = [device EXCEPT !.line = IF @ = << >> THEN @ ELSE Front(@)]
    /\ down' = IF device.mode \in Asking \/ device.line = << >> THEN down
               ELSE Append(down, "BS")
    /\ UNCHANGED ran
Enters(m, tries) ==
    /\ m \in DOMAIN Prompt \cup {"gone"} /\ tries \in 0 .. MaxTries
    /\ ToMode(m, tries)
    /\ m # "gone" => (device.mode \in NetModes <=> m \in NetModes)
    /\ m = "gone" => device.mode \notin Asking
ReadsEnd(x) ==
    /\ x.key \in {"CR", "LF", "^C"}
    /\ \E m, tries : Enters(m, tries)
    /\ \/ x.key = "^C" /\ UNCHANGED ran
       \/ device.mode \in Asking /\ UNCHANGED ran
       \/ /\ x.key # "^C" /\ device.mode \notin Asking
          /\ ran' = [line |-> device.line, by |-> x.by, settled |-> x.settled]

\* The key x is taken off the channel.
Takes(x) ==
    /\ up # << >> /\ x = Head(up) /\ x = up[1] /\ up' = Tail(up)
    /\ up' \in Seq(Sent) /\ Len(up') = Len(up) - 1
    /\ \A i \in 1 .. Len(up') : up'[i] = up[i + 1]
    /\ device.mode # "gone" /\ device.mode \in DOMAIN Prompt
    /\ UNCHANGED <<gate, input, output, ending, keys>>

LEMMA DeviceDoes ==
    ASSUME GateTypeInv, DeviceReads
    PROVE  \E x \in Sent : Takes(x) /\ (ReadsWord(x) \/ ReadsDel(x) \/ ReadsEnd(x))
<1> DEFINE x == Head(up)
<1>1. up \in Seq(Sent) /\ up # << >>
  BY DEF GateTypeInv, DeviceReads
<1>2. x \in Sent /\ x = up[1] /\ Tail(up) \in Seq(Sent) /\ Len(Tail(up)) = Len(up) - 1
  BY <1>1, HeadTailProperties, ElementOfSeq, EmptySeq, LenProperties
<1>3. \A i \in 1 .. Len(Tail(up)) : Tail(up)[i] = up[i + 1]
  BY <1>1, HeadTailProperties
<1>4. device \in DeviceRow /\ device.mode # "gone" /\ device.mode \in DOMAIN Prompt
  BY DEF GateTypeInv, DeviceReads, DeviceRow
<1>5. UNCHANGED <<gate, input, output, ending, keys>> /\ up' = Tail(up)
  BY DEF DeviceReads
<1>6. MaxTries \in Nat
  BY GateAssumption
<1>7. device.tries \in 0 .. MaxTries
  BY <1>4 DEF DeviceRow
<1>t. Takes(x)
  BY <1>1, <1>2, <1>3, <1>4, <1>5 DEF Takes
<1>8. CASE x.key \in Words
  <2>1. x.key \notin {"DEL", "^C", "CR", "LF"}
    BY <1>8, WordsAreWords
  <2>2. ReadsWord(x)
    BY <1>8, <2>1 DEF DeviceReads, ReadsWord
  <2> QED
    BY <1>2, <1>t, <2>2
<1>9. CASE x.key = "DEL"
  <2>1. ReadsDel(x)
    BY <1>9, WordsAreWords DEF DeviceReads, ReadsDel
  <2> QED
    BY <1>2, <1>t, <2>1
<1>10. CASE x.key = "^C"
  <2>1. PICK m : /\ m = (IF device.mode = "sudo" THEN "shell"
                         ELSE IF device.mode = "enable" THEN "user" ELSE device.mode)
                 /\ ToMode(m, 0) /\ UNCHANGED ran
    BY <1>10, WordsAreWords DEF DeviceReads
  <2>2. Enters(m, 0)
    BY <1>4, <1>6, <2>1 DEF Prompt, NetModes, Enters
  <2>3. ReadsEnd(x)
    BY <1>10, <2>1, <2>2 DEF ReadsEnd
  <2> QED
    BY <1>2, <1>t, <2>3
<1>11. CASE x.key \in {"CR", "LF"} /\ device.mode \in Asking
  <2>1. PICK n : /\ n = AfterPassword(device.mode, device.line, device.tries)
                 /\ ToMode(n, IF n = device.mode THEN device.tries + 1 ELSE 0)
                 /\ UNCHANGED ran
    BY <1>11, WordsAreWords DEF DeviceReads
  <2>2. /\ n \in DOMAIN Prompt
        /\ device.mode \in NetModes <=> n \in NetModes
        /\ n = device.mode => device.tries + 1 \in 0 .. MaxTries
    BY <1>6, <1>7, <1>11, <2>1 DEF AfterPassword, Prompt, Asking, NetModes
  <2>3. Enters(n, IF n = device.mode THEN device.tries + 1 ELSE 0)
    BY <1>6, <2>1, <2>2 DEF Prompt, Enters
  <2>4. ReadsEnd(x)
    BY <1>11, <2>1, <2>3 DEF ReadsEnd
  <2> QED
    BY <1>2, <1>t, <2>4
<1>12. CASE x.key \in {"CR", "LF"} /\ device.mode \notin Asking
  <2>1. PICK n \in AfterLine(device.mode, device.line) :
           /\ ToMode(n, 0)
           /\ ran' = [line |-> device.line, by |-> x.by, settled |-> x.settled]
    BY <1>12, WordsAreWords DEF DeviceReads
  <2>2. Enters(n, 0)
    BY <1>4, <1>6, <1>12, <2>1 DEF AfterLine, Prompt, Asking, NetModes, Enters
  <2>3. ReadsEnd(x)
    BY <1>12, <2>1, <2>2 DEF ReadsEnd
  <2> QED
    BY <1>2, <1>t, <2>3
<1>13. x.key \in Words \/ x.key \in {"DEL", "^C", "CR", "LF"}
  BY <1>2, WordsAreWords DEF Sent
<1> QED
  BY <1>8, <1>9, <1>10, <1>11, <1>12, <1>13

LEMMA DeviceType ==
    ASSUME GateTypeInv, DeviceReads
    PROVE  GateTypeInv'
<1>1. PICK x \in Sent : Takes(x) /\ (ReadsWord(x) \/ ReadsDel(x) \/ ReadsEnd(x))
  BY DeviceDoes
<1>0. up' \in Seq(Sent) /\ UNCHANGED <<gate, input, output, ending, keys>>
  BY <1>1 DEF Takes
<1>2. device \in DeviceRow /\ device.line \in Seq(Words) /\ ran \in RanRow /\ down \in Seq(Output)
  BY DEF GateTypeInv, DeviceRow
<1>3. "NL" \in Output /\ "BS" \in Output /\ \A m \in DOMAIN Prompt : Prompt[m] \in Output
  BY DEF Output, Text, Prompts, Prompt
<1>4. ran' \in RanRow
  BY <1>1, <1>2 DEF RanRow, Sent, ReadsWord, ReadsDel, ReadsEnd
<1>5. CASE ReadsWord(x)
  <2>1. device' \in DeviceRow
    BY <1>2, <1>5, AppendProperties DEF DeviceRow, ReadsWord
  <2>2. down' \in Seq(Output)
    BY <1>2, <1>5, AppendProperties DEF Output, Text, ReadsWord
  <2> QED
    BY <1>0, <1>4, <2>1, <2>2 DEF GateTypeInv
<1>6. CASE ReadsDel(x)
  <2>1. device' \in DeviceRow
    BY <1>2, <1>6, FrontProperties DEF DeviceRow, ReadsDel
  <2>2. down' \in Seq(Output)
    BY <1>2, <1>3, <1>6, AppendProperties DEF ReadsDel
  <2> QED
    BY <1>0, <1>4, <2>1, <2>2 DEF GateTypeInv
<1>7. CASE ReadsEnd(x)
  <2>0. PICK m \in DOMAIN Prompt \cup {"gone"}, tries \in 0 .. MaxTries : ToMode(m, tries)
    BY <1>7 DEF ReadsEnd, Enters
  <2>1. << >> \in Seq(Words)
    BY EmptySeq
  <2>2. device' \in DeviceRow
    BY <2>0, <2>1 DEF ToMode, DeviceRow
  <2>3. down' \in Seq(Output)
    <3>1. CASE m = "gone"
      BY <1>2, <1>3, <2>0, <3>1, AppendProperties DEF ToMode
    <3>2. CASE m # "gone"
      <4>1. <<"NL", Prompt[m]>> \in Seq(Output)
        BY <1>3, <3>2
      <4> QED
        BY <1>2, <2>0, <3>2, <4>1, ConcatProperties DEF ToMode
    <3> QED
      BY <3>1, <3>2
  <2> QED
    BY <1>0, <1>4, <2>2, <2>3 DEF GateTypeInv
<1> QED
  BY <1>1, <1>5, <1>6, <1>7

LEMMA NextType ==
    ASSUME GateTypeInv, [Next]_vars
    PROVE  GateTypeInv'
<1>1. CASE TypeKey
  <2>1. PICK k \in Keys :
          /\ input.pc = "read" /\ keys < MaxKeys /\ keys' = keys + 1
          /\ input' = input \/ input' = [input EXCEPT !.pc = "key", !.key = k]
          /\ UNCHANGED <<gate, output, up, down, device, ending, ran>>
    BY <1>1 DEF TypeKey
  <2>2. keys' \in 0 .. MaxKeys
    <3>1. MaxKeys \in Nat /\ keys \in 0 .. MaxKeys
      BY GateAssumption DEF GateTypeInv
    <3> QED
      BY <2>1, <3>1
  <2>3. input' \in InputRow /\ (input'.pc = "key" => input'.key \in Keys)
    BY <2>1 DEF GateTypeInv, InputRow, Pcs
  <2> QED
    BY <2>1, <2>2, <2>3 DEF GateTypeInv
<1>2. CASE DebounceEnds
  <2>1. gate' \in GateType
    BY <1>2 DEF DebounceEnds, GateTypeInv, GateType
  <2> QED
    BY <1>2, <2>1 DEF DebounceEnds, GateTypeInv
<1>3. CASE EndSession
  BY <1>3, EmptySeq DEF EndSession, Close, GateTypeInv
<1>4. CASE UserLeaves
  <2>1. input' \in InputRow /\ input'.pc # "key"
    BY <1>4, ReadingType DEF UserLeaves, InputRow, Pcs
  <2> QED
    BY <1>4, <2>1, EmptySeq DEF UserLeaves, Close, GateTypeInv
<1>5. CASE UNCHANGED vars
  BY <1>5 DEF vars, GateTypeInv
<1> QED
  BY <1>1, <1>2, <1>3, <1>4, <1>5, OutputType, InputType, DeviceType DEF Next

LEMMA InitType ==
    ASSUME Init
    PROVE  GateTypeInv
<1>1. << >> \in Seq(Words \cup Prompts) /\ << >> \in Seq(Words) /\ << >> \in Seq(Sent)
  BY EmptySeq
<1>2. gate \in GateType
  BY <1>1 DEF Init, GateType
<1>3. PICK m \in {"user", "exec", "shell"} :
         device = [mode |-> m, line |-> << >>, tries |-> 0] /\ down = <<Prompt[m]>>
  BY DEF Init
<1>4. MaxKeys \in Nat /\ MaxTries \in Nat
  BY GateAssumption
<1>5. device \in DeviceRow
  BY <1>1, <1>3, <1>4 DEF DeviceRow, Prompt
<1>6. Prompt[m] \in Output
  BY DEF Prompt, Output, Text, Prompts
<1>7. down \in Seq(Output)
  BY <1>3, <1>6
<1>8. ran \in RanRow /\ output \in OutputRow
  BY <1>1 DEF Init, RanRow, Authors, OutputRow
<1> QED
  BY <1>1, <1>2, <1>4, <1>5, <1>7, <1>8, ReadingType DEF Init, GateTypeInv

\* TypeOK: the gate's fields, both channels and the device keep their types.
THEOREM GateTypeCorrect == Spec => []TypeOK
<1>1. GateTypeInv => TypeOK
  BY DEF GateTypeInv, TypeOK, InputRow, Pcs, OutputRow, DeviceRow, RanRow, Output, Text
<1> QED
  BY <1>1, InitType, NextType, PTL DEF Spec

-----------------------------------------------------------------------------
(* What a step may do, told apart by what the invariants below ask of it.  *)

Answering == {"inject", "send", "write"}
Ending == Entering \cup {"cancel"}

\* An Enter that a judged line ends with, and the line's last look at the gate.
Seen(row) == row.by = "judged" /\ row.settled
Judging == {"arm"} \cup Entering

\* A step of the gate that writes nothing.
Thinks ==
    /\ up' = up
    /\ input'.pc \notin Ending => input.pc \notin Ending
    /\ input'.pc \notin Entering => input.pc \notin Entering
    /\ input'.pc \in {"force", "write"} => input.pc \in {"force", "write"} \/ (Waiting /\ input.pc = "key")
    /\ input'.pc \in Judging /\ Seen(input') =>
          \/ input.pc \in Judging /\ Seen(input)
          \/ /\ input.pc = "line" /\ Quiet
             /\ CurrentCommand = << >> \/ CommandAllowed(CurrentCommand, Allow, Deny)

\* A step that writes.
WritesKey == /\ \E k \in Keys \ {"CR", "LF"} : up' = Append(up, Typed(k))
             /\ ~Waiting /\ input.pc = "key" /\ input'.pc = "read"
WritesCancel == up' = Append(up, Typed("^C")) /\ input.pc = "cancel" /\ input'.pc = "read"
WritesEnter == /\ up' = Append(up, Enter(input.by, input.settled))
               /\ input.pc \in Entering /\ input'.pc = "read"
WritesAuto == /\ up' = up \o <<Typed(Secret), Enter("auto", input.pc \notin Entering)>>
              /\ input' = input /\ output.pc = "write"
WritesForced == /\ up' = up \o <<Typed(Secret), Enter("forced", TRUE)>>
                /\ input.pc = "write" /\ input'.pc = "read"
Writes == WritesKey \/ WritesCancel \/ WritesEnter \/ WritesAuto \/ WritesForced

\* A step of either goroutine, or of a clock, that reads nothing of the device.
Talks ==
    /\ UNCHANGED <<down, device, ran>> 
    /\ ending' = "closed" <=> ending = "closed"
    /\ gate'.execPrivileged = gate.execPrivileged
    /\ gate.expectEnablePass => gate'.expectEnablePass
    /\ gate'.expectEnablePass => gate.expectEnablePass \/ (input.pc = "arm" /\ input'.pc = "leave")
    /\ gate'.devLine = gate.devLine \/ input'.pc \in {"cancel", "leave"}
    /\ gate'.devLine = gate.devLine \/ gate'.devLine = << >>
    /\ output'.pc \in Answering => output.pc \in Answering
    /\ output.pc = "read" => output'.pc = "read"
    /\ input'.by = input.by \/ input'.by \in {"judged", "ignored"}
    /\ input'.pc = "arm" => input.pc = "arm" \/ Credential
    /\ ending = "closed" => up' = up
    /\ ending # "closed" => Thinks \/ Writes

\* A channel is closed, and with it everything.
Closes ==
    /\ ending' = "closed" /\ up' = << >> /\ down' = << >> /\ UNCHANGED <<gate, device, ran>>
    /\ input'.by = input.by \/ input'.by = "judged"
    /\ input'.pc \in {input.pc, "gone"}

LEMMA OutputTalks ==
    ASSUME GateTypeInv, TryAutoInjectEnable \/ SendAuto \/ WriteAuto
    PROVE  Talks
<1> USE DEF Answering
<1>1. gate \in GateType /\ input' = input /\ UNCHANGED <<down, device, ran, ending>>
  BY DEF GateTypeInv, TryAutoInjectEnable, SendAuto, WriteAuto
<1>2. /\ gate'.execPrivileged = gate.execPrivileged
      /\ gate'.expectEnablePass = gate.expectEnablePass /\ gate'.devLine = gate.devLine
  BY <1>1 DEF TryAutoInjectEnable, SendAuto, WriteAuto, Sending, GateType
<1>3. output.pc \in Answering
  BY DEF TryAutoInjectEnable, SendAuto, WriteAuto
<1>4. ASSUME up' = up PROVE Thinks
  BY <1>1, <1>4 DEF Thinks, Seen
<1>5. (ending = "closed" => up' = up) /\ (ending # "closed" => Thinks \/ Writes)
  <2>1. CASE WriteAuto
    BY <1>1, <2>1 DEF WriteAuto, Write, Writes, WritesAuto
  <2>2. CASE TryAutoInjectEnable \/ SendAuto
    BY <1>4, <2>2 DEF TryAutoInjectEnable, SendAuto
  <2> QED
    BY <2>1, <2>2
<1> QED
  BY <1>1, <1>2, <1>3, <1>5 DEF Talks

LEMMA InputTalks ==
    ASSUME GateTypeInv, InputStep \/ TypeKey \/ DebounceEnds
    PROVE  Talks
<1> USE DEF Ending, Entering, Judging
<1>0. gate \in GateType /\ input \in InputRow
  BY DEF GateTypeInv
<1>r. Reading.pc = "read" /\ Reading.by = "judged" /\ ~Seen(Reading)
  BY DEF Reading, Seen
<1>1. CASE SkipLF
  <2>1. /\ gate'.execPrivileged = gate.execPrivileged
        /\ gate'.expectEnablePass = gate.expectEnablePass /\ gate'.devLine = gate.devLine
    BY <1>0, <1>1 DEF SkipLF, GateType
  <2> QED
    BY <1>1, <1>r, <2>1 DEF SkipLF, Talks, Thinks
<1>2. CASE PressEnter
  <2>1. /\ gate'.execPrivileged = gate.execPrivileged
        /\ gate'.expectEnablePass = gate.expectEnablePass /\ gate'.devLine = gate.devLine
    BY <1>0, <1>2 DEF PressEnter, GateType
  <2>2. /\ input'.pc = (IF Waiting THEN "force" ELSE "line")
        /\ input'.by = input.by /\ input'.settled = input.settled /\ input.pc = "key"
    BY <1>0, <1>2 DEF PressEnter, InputRow
  <2> QED
    BY <1>2, <2>1, <2>2 DEF PressEnter, Talks, Thinks
<1>3. CASE PassKey
  <2>1. /\ gate'.execPrivileged = gate.execPrivileged
        /\ gate'.expectEnablePass = gate.expectEnablePass /\ gate'.devLine = gate.devLine
    BY <1>0, <1>3 DEF PassKey, GateType
  <2>2. CASE UNCHANGED up
    BY <1>3, <1>r, <2>1, <2>2 DEF PassKey, Talks, Thinks
  <2>3. CASE ~Waiting /\ Write(<<Typed(input.key)>>) /\ ending # "closed"
    <3>1. input.key \in Keys \ {"CR", "LF"}
      BY <1>3 DEF PassKey, GateTypeInv
    <3>2. up' = Append(up, Typed(input.key))
      BY <2>3 DEF Write, GateTypeInv
    <3> QED
      BY <1>3, <1>r, <2>1, <2>3, <3>1, <3>2 DEF PassKey, Talks, Writes, WritesKey
  <2> QED
    BY <1>3, <2>2, <2>3 DEF PassKey, Write
<1>4. CASE SendForced
  <2>1. /\ gate'.execPrivileged = gate.execPrivileged
        /\ gate'.expectEnablePass = gate.expectEnablePass /\ gate'.devLine = gate.devLine
    BY <1>0, <1>4 DEF SendForced, Sending, GateType
  <2>2. /\ input.pc = "force"
        /\ input'.pc \in {"write", "read"} /\ input'.by \in {input.by, "judged"}
    BY <1>0, <1>4, <1>r DEF SendForced, InputRow
  <2> QED
    BY <1>4, <2>1, <2>2 DEF SendForced, Talks, Thinks
<1>5. CASE WriteForced
  <2>1. CASE ending = "closed"
    BY <1>5, <1>r, <2>1 DEF WriteForced, Write, Talks
  <2>2. CASE ending # "closed"
    BY <1>5, <1>r, <2>2 DEF WriteForced, Write, Talks, Writes, WritesForced
  <2> QED
    BY <2>1, <2>2
<1>6. CASE LineEnd
  <2>1. /\ gate'.execPrivileged = gate.execPrivileged
        /\ gate'.expectEnablePass = gate.expectEnablePass /\ gate'.devLine = gate.devLine
    BY <1>0, <1>6 DEF LineEnd, GateType
  <2>2. input.pc = "line" /\ UNCHANGED <<output, up, down, device, ending, ran, keys>>
    BY <1>6 DEF LineEnd
  <2>3. CASE input' = Reading
    BY <1>r, <2>1, <2>2, <2>3 DEF Talks, Thinks
  <2>4. CASE input' = [input EXCEPT !.pc = IF gate.ignoreLine THEN "pass" ELSE NextOf(CurrentCommand),
                                    !.by = IF gate.ignoreLine THEN "ignored" ELSE "judged",
                                    !.cmd = IF gate.ignoreLine THEN << >> ELSE CurrentCommand,
                                    !.settled = Quiet]
    <3>1. /\ input'.pc = (IF gate.ignoreLine THEN "pass" ELSE NextOf(CurrentCommand))
          /\ input'.by = (IF gate.ignoreLine THEN "ignored" ELSE "judged")
          /\ input'.settled = Quiet
      BY <1>0, <2>4 DEF InputRow
    <3>2. /\ NextOf(CurrentCommand) \in {"refuse", "arm", "leave"}
          /\ NextOf(CurrentCommand) = "arm" => Credential
          /\ NextOf(CurrentCommand) # "refuse" =>
                CurrentCommand = << >> \/ CommandAllowed(CurrentCommand, Allow, Deny)
      BY DEF NextOf
    <3>3. input'.pc \in {"pass", "refuse", "arm", "leave"} /\ (input'.pc = "arm" => Credential)
      BY <3>1, <3>2
    <3>4. input'.pc \in Judging /\ Seen(input') =>
             Quiet /\ (CurrentCommand = << >> \/ CommandAllowed(CurrentCommand, Allow, Deny))
      BY <3>1, <3>2 DEF Seen
    <3> QED
      BY <2>1, <2>2, <3>1, <3>3, <3>4 DEF Talks, Thinks
  <2> QED
    BY <1>6, <2>3, <2>4 DEF LineEnd
<1>7. CASE Refuse
  <2>1. /\ gate'.execPrivileged = gate.execPrivileged
        /\ gate'.expectEnablePass = gate.expectEnablePass /\ gate'.devLine = << >>
    BY <1>0, <1>7 DEF Refuse, GateType
  <2>2. input.pc = "refuse" /\ input'.pc = "cancel" /\ input'.by = input.by
    BY <1>0, <1>7 DEF Refuse, InputRow
  <2> QED
    BY <1>7, <2>1, <2>2 DEF Refuse, Talks, Thinks
<1>8. CASE Cancel
  <2>1. CASE ending = "closed"
    BY <1>8, <1>r, <2>1 DEF Cancel, Write, Talks
  <2>2. CASE ending # "closed"
    <3>1. up' = Append(up, Typed("^C"))
      BY <1>8, <2>2 DEF Cancel, Write, GateTypeInv
    <3> QED
      BY <1>8, <1>r, <2>2, <3>1 DEF Cancel, Talks, Writes, WritesCancel
  <2> QED
    BY <2>1, <2>2
<1>9. CASE Arm
  <2>1. gate'.execPrivileged = gate.execPrivileged /\ gate'.expectEnablePass /\ gate'.devLine = << >>
    BY <1>0, <1>9 DEF Arm, GateType
  <2>2. /\ input.pc = "arm" /\ input'.pc = "leave" /\ input'.by = input.by
        /\ input'.settled = input.settled
    BY <1>0, <1>9 DEF Arm, InputRow
  <2> QED
    BY <1>9, <2>1, <2>2 DEF Arm, Talks, Thinks, Seen
<1>10. CASE Leave
  <2>1. /\ input.pc = "leave" /\ input'.pc \in {"end", "pass"} /\ input'.by = input.by
        /\ input'.settled = input.settled
    BY <1>0, <1>10 DEF Leave, InputRow
  <2> QED
    BY <1>10, <2>1 DEF Leave, Talks, Thinks, Seen
<1>11. CASE Pass \/ PassAndEnd
  <2>1. /\ UNCHANGED <<gate, output, down, device, ran>> /\ input' = Reading
        /\ ending' = "closed" <=> ending = "closed"
        /\ input.pc \in {"pass", "end"} /\ Write(<<Enter(input.by, input.settled)>>)
    BY <1>11 DEF Pass, PassAndEnd
  <2>2. CASE ending = "closed"
    BY <1>r, <2>1, <2>2 DEF Write, Talks
  <2>3. CASE ending # "closed"
    <3>1. up' = Append(up, Enter(input.by, input.settled))
      BY <2>1, <2>3 DEF Write, GateTypeInv
    <3> QED
      BY <1>r, <2>1, <2>3, <3>1 DEF Talks, Writes, WritesEnter
  <2> QED
    BY <2>2, <2>3
<1>12. CASE TypeKey
  <2>1. /\ UNCHANGED <<gate, output, up, down, device, ending, ran>> /\ input.pc = "read"
        /\ input' = input \/ \E k \in Keys : input' = [input EXCEPT !.pc = "key", !.key = k]
    BY <1>12 DEF TypeKey
  <2>2. input'.by = input.by /\ input'.pc \in {"read", "key"}
    BY <1>0, <2>1 DEF InputRow
  <2> QED
    BY <2>1, <2>2 DEF Talks, Thinks
<1>13. CASE DebounceEnds
  <2>1. /\ gate'.execPrivileged = gate.execPrivileged
        /\ gate'.expectEnablePass = gate.expectEnablePass /\ gate'.devLine = gate.devLine
    BY <1>0, <1>13 DEF DebounceEnds, GateType
  <2> QED
    BY <1>13, <2>1 DEF DebounceEnds, Talks, Thinks, Seen
<1> QED
  BY <1>1, <1>2, <1>3, <1>4, <1>5, <1>6, <1>7, <1>8, <1>9, <1>10, <1>11, <1>12, <1>13 DEF InputStep

\* Every step is one of five.
LEMMA GateSteps ==
    ASSUME GateTypeInv, [Next]_vars
    PROVE  Talks \/ Closes \/ NoteOutput \/ DeviceReads \/ UNCHANGED vars
<1>1. ASSUME DeviceEnds \/ EndSession PROVE Closes
  BY <1>1 DEF DeviceEnds, EndSession, Close, Closes
<1>2. ASSUME UserLeaves PROVE Closes
  <2>1. input'.by = "judged" /\ input'.pc = "gone"
    BY <1>2 DEF UserLeaves, Reading
  <2> QED
    BY <1>2, <2>1 DEF UserLeaves, Close, Closes
<1> QED
  BY <1>1, <1>2, OutputTalks, InputTalks DEF Next, OutputStep

-----------------------------------------------------------------------------
(* A network device: the wait for a password, and the secret.              *)

Net == device.mode \in NetModes /\ ending # "closed"

\* The gate waits for a password prompt, whatever the session knows.
Awaiting == gate.expectEnablePass /\ ~gate.execPrivileged

\* The device is, or will be when it has read everything, at the start of a line.
LineEnds(item) == item.key \in {"CR", "^C"}
Clean == \/ up = << >> /\ device.line = << >>
         \/ up # << >> /\ LineEnds(up[Len(up)])

\* What is closed carries nothing; what the user's side notes of its last line.
ClosedInv == ending = "closed" => up = << >> /\ down = << >>
InputInv == /\ input.by \in {"judged", "ignored"}
            /\ input.pc = "arm" => Credential

\* A network device never asks for a sudo password.
TalkInv == device.mode \in NetModes =>
    ~Has(down, "[sudo]") /\ ~Has(gate.devLine, "[sudo]")

\* While a password is awaited nothing of a line is on the device, the other
\* goroutine answers only then, and a prompt that ends the wait is on its way
\* to the gate as soon as the device is back at one.
WaitInv == Net =>
    /\ gate.expectEnablePass => Credential
    /\ Awaiting /\ input.pc \notin Entering => Clean
    /\ input.pc \in {"force", "write"} => Clean
    /\ output.pc \in Answering => Awaiting
    /\ Awaiting /\ input.pc \notin Entering /\ up = << >> /\ device.mode # "enable" =>
          down # << >> /\ down[Len(down)] = Prompt[device.mode]

\* An Enter of the gate that no judged Enter of the user waited behind stands
\* right after the secret, and the secret at the start of a line.
Own(item) == item.by \in {"auto", "forced"} /\ item.settled
OwnInv == Net =>
    \A i \in 1 .. Len(up) : Own(up[i]) =>
        /\ up[i].key = "CR"
        /\ i = 1 => device.line = <<Secret>>
        /\ i = 2 => device.line = << >>
        /\ i >= 2 => up[i - 1] = Typed(Secret)
        /\ i >= 3 => LineEnds(up[i - 2])
RanInv == device.mode \in NetModes /\ Own(ran) => ran.line = <<Secret>>

NetInv == ClosedInv /\ InputInv /\ TalkInv /\ WaitInv /\ OwnInv /\ RanInv

LEMMA TwoMore ==
    ASSUME NEW S, NEW s \in Seq(S), NEW a \in S, NEW b \in S
    PROVE  /\ Len(s \o <<a, b>>) = Len(s) + 2
           /\ \A i \in 1 .. Len(s) : (s \o <<a, b>>)[i] = s[i]
           /\ (s \o <<a, b>>)[Len(s) + 1] = a /\ (s \o <<a, b>>)[Len(s) + 2] = b
           /\ s \o <<a, b>> = Append(Append(s, a), b)
<1>1. <<a, b>> \in Seq(S) /\ Len(<<a, b>>) = 2 /\ <<a, b>>[1] = a /\ <<a, b>>[2] = b
  OBVIOUS
<1>2. Len(s) \in Nat
  BY LenProperties
<1>3. /\ Len(s \o <<a, b>>) = Len(s) + 2
      /\ \A i \in 1 .. Len(s) + 2 :
            (s \o <<a, b>>)[i] = IF i <= Len(s) THEN s[i] ELSE <<a, b>>[i - Len(s)]
      /\ s \o <<a, b>> \in Seq(S)
  BY <1>1, ConcatProperties
<1>4. /\ Append(s, a) \in Seq(S) /\ Len(Append(s, a)) = Len(s) + 1
      /\ \A i \in 1 .. Len(s) : Append(s, a)[i] = s[i]
      /\ Append(s, a)[Len(s) + 1] = a
  BY AppendProperties
<1>5. /\ Append(Append(s, a), b) \in Seq(S) /\ Len(Append(Append(s, a), b)) = Len(s) + 2
      /\ \A i \in 1 .. Len(s) + 1 : Append(Append(s, a), b)[i] = Append(s, a)[i]
      /\ Append(Append(s, a), b)[Len(s) + 2] = b
  BY <1>2, <1>4, AppendProperties
<1>6. /\ \A i \in 1 .. Len(s) : (s \o <<a, b>>)[i] = s[i]
      /\ (s \o <<a, b>>)[Len(s) + 1] = a /\ (s \o <<a, b>>)[Len(s) + 2] = b
  BY <1>1, <1>2, <1>3
<1>7. \A i \in 1 .. Len(s) + 2 : (s \o <<a, b>>)[i] = Append(Append(s, a), b)[i]
  <2> SUFFICES ASSUME NEW i \in 1 .. Len(s) + 2
               PROVE  (s \o <<a, b>>)[i] = Append(Append(s, a), b)[i]
    OBVIOUS
  <2>1. i \in 1 .. Len(s) \/ i = Len(s) + 1 \/ i = Len(s) + 2
    BY <1>2
  <2> QED
    BY <1>2, <1>4, <1>5, <1>6, <2>1
<1>8. s \o <<a, b>> = Append(Append(s, a), b)
  BY <1>3, <1>5, <1>7, SeqEqual
<1> QED
  BY <1>3, <1>6, <1>8

\* What ToMode appends.
LEMMA ToModeSays ==
    ASSUME GateTypeInv, NEW m \in DOMAIN Prompt \cup {"gone"}, NEW tries, ToMode(m, tries)
    PROVE  /\ device'.mode = m /\ device'.line = << >>
           /\ m = "gone" => down' = Append(down, "NL")
           /\ m # "gone" => /\ down' = Append(Append(down, "NL"), Prompt[m])
                            /\ down' # << >> /\ down'[Len(down')] = Prompt[m]
           /\ ~Has(down, "[sudo]") /\ (m # "gone" => m \in NetModes) => ~Has(down', "[sudo]")
<1>1. down \in Seq(Output) /\ "NL" \in Output /\ (m # "gone" => Prompt[m] \in Output)
  BY DEF GateTypeInv, Output, Text, Prompts, Prompt
<1>2. Len(down) \in Nat
  BY <1>1, LenProperties
<1>3. device'.mode = m /\ device'.line = << >>
  BY DEF ToMode
<1>4. CASE m = "gone"
  <2>1. down' = Append(down, "NL")
    BY <1>4 DEF ToMode
  <2>2. /\ Len(down') = Len(down) + 1 /\ \A i \in 1 .. Len(down) : down'[i] = down[i]
        /\ down'[Len(down) + 1] = "NL"
    BY <1>1, <2>1, AppendProperties
  <2>3. \A i \in 1 .. Len(down) + 1 : i \in 1 .. Len(down) \/ i = Len(down) + 1
    BY <1>2
  <2> QED
    BY <1>3, <1>4, <2>1, <2>2, <2>3 DEF Has
<1>5. CASE m # "gone"
  <2>1. down' = down \o <<"NL", Prompt[m]>>
    BY <1>5 DEF ToMode
  <2>2. /\ Len(down') = Len(down) + 2 /\ \A i \in 1 .. Len(down) : down'[i] = down[i]
        /\ down'[Len(down) + 1] = "NL" /\ down'[Len(down) + 2] = Prompt[m]
        /\ down' = Append(Append(down, "NL"), Prompt[m])
    BY <1>1, <1>5, <2>1, TwoMore
  <2>3. \A i \in 1 .. Len(down) + 2 : i \in 1 .. Len(down) \/ i = Len(down) + 1 \/ i = Len(down) + 2
    BY <1>2
  <2>4. down' # << >> /\ down'[Len(down')] = Prompt[m]
    BY <1>2, <2>2
  <2>5. m \in NetModes => Prompt[m] # "[sudo]"
    BY DEF NetModes, Prompt
  <2>6. ~Has(down, "[sudo]") /\ m \in NetModes => ~Has(down', "[sudo]")
    BY <2>2, <2>3, <2>5 DEF Has
  <2> QED
    BY <1>3, <1>5, <2>2, <2>4, <2>6
<1> QED
  BY <1>4, <1>5

\* The device stays of its kind, and what is closed stays closed.
LEMMA NetStays ==
    ASSUME GateTypeInv, [Next]_vars
    PROVE  /\ device'.mode \in NetModes => device.mode \in NetModes
           /\ ending' # "closed" => ending # "closed"
           /\ device'.mode # "gone" => device.mode # "gone"
<1>1. CASE DeviceReads
  <2>1. PICK x \in Sent : Takes(x) /\ (ReadsWord(x) \/ ReadsDel(x) \/ ReadsEnd(x))
    BY <1>1, DeviceDoes
  <2>2. device.mode # "gone" /\ ending' = ending
    BY <2>1 DEF Takes
  <2>3. ReadsWord(x) \/ ReadsDel(x) => device'.mode = device.mode
    BY DEF ReadsWord, ReadsDel, GateTypeInv, DeviceRow
  <2>4. ASSUME ReadsEnd(x), device'.mode \in NetModes PROVE device.mode \in NetModes
    <3>1. PICK m, tries : Enters(m, tries)
      BY <2>4 DEF ReadsEnd
    <3>2. device'.mode = m
      BY <3>1 DEF Enters, ToMode
    <3> QED
      BY <2>4, <3>1, <3>2 DEF Enters, NetModes
  <2> QED
    BY <2>1, <2>2, <2>3, <2>4
<1>2. CASE NoteOutput
  BY <1>2 DEF NoteOutput
<1> QED
  BY <1>1, <1>2, GateSteps DEF Talks, Closes, vars

LEMMA HasAppend ==
    ASSUME NEW S, NEW s \in Seq(S), NEW a \in S, NEW other, ~Has(s, other), a # other
    PROVE  ~Has(Append(s, a), other)
<1>1. Len(s) \in Nat
  BY LenProperties
<1>2. /\ Len(Append(s, a)) = Len(s) + 1 /\ \A i \in 1 .. Len(s) : Append(s, a)[i] = s[i]
      /\ Append(s, a)[Len(s) + 1] = a
  BY AppendProperties
<1>3. \A i \in 1 .. Len(s) + 1 : i \in 1 .. Len(s) \/ i = Len(s) + 1
  BY <1>1
<1> QED
  BY <1>2, <1>3 DEF Has

LEMMA ClosedKeeps ==
    ASSUME GateTypeInv, ClosedInv, [Next]_vars
    PROVE  ClosedInv'
<1> USE DEF ClosedInv
<1>1. CASE DeviceReads
  BY <1>1 DEF DeviceReads
<1>2. CASE NoteOutput
  BY <1>2 DEF NoteOutput
<1>3. CASE Talks
  BY <1>3 DEF Talks
<1> QED
  BY <1>1, <1>2, <1>3, GateSteps DEF Closes, vars

LEMMA InputKeeps ==
    ASSUME GateTypeInv, InputInv, [Next]_vars
    PROVE  InputInv'
<1> USE DEF InputInv
<1>1. CASE DeviceReads
  BY <1>1 DEF DeviceReads, Credential
<1>2. CASE NoteOutput
  BY <1>2 DEF NoteOutput, Credential
<1>3. CASE Talks
  BY <1>3 DEF Talks, Credential
<1>4. CASE Closes
  BY <1>4 DEF Closes, Credential
<1>5. CASE UNCHANGED vars
  BY <1>5 DEF vars, Credential
<1> QED
  BY <1>1, <1>2, <1>3, <1>4, <1>5, GateSteps

\* What noteOutput does at a network device.
LEMMA NoteKeeps ==
    ASSUME GateTypeInv, TalkInv, device.mode \in NetModes, NoteOutput
    PROVE  /\ ~Has(down', "[sudo]") /\ ~Has(gate'.devLine, "[sudo]")
           /\ gate'.expectEnablePass =>
                 gate.expectEnablePass /\ gate'.execPrivileged = gate.execPrivileged
           /\ output'.pc \in Answering => gate'.expectEnablePass /\ ~gate'.execPrivileged
           /\ down # << >> /\ down[Len(down)] \in {">", "#"} /\ gate'.expectEnablePass
                 => down' # << >> /\ down'[Len(down')] = down[Len(down)]
           /\ UNCHANGED <<input, up, device, ending, ran>>
<1>1. PICK n \in 1 .. Len(down), asks \in BOOLEAN, inject \in BOOLEAN, sudo \in BOOLEAN :
        /\ SubSeq(down, 1, n) \in Seq(Output) /\ MirroredAll(SubSeq(down, 1, n)) \in GateType
        /\ gate' = Asked(MirroredAll(SubSeq(down, 1, n)), asks, inject, sudo)
        /\ sudo => Has(MirroredAll(SubSeq(down, 1, n)).devLine, "[sudo]")
        /\ inject /\ ~sudo => /\ MirroredAll(SubSeq(down, 1, n)).expectEnablePass
                              /\ ~MirroredAll(SubSeq(down, 1, n)).execPrivileged
        /\ output' = [pc |-> IF inject THEN "inject" ELSE "read"]
        /\ down' = SubSeq(down, n + 1, Len(down))
        /\ UNCHANGED <<input, up, device, ending, ran, keys>>
  BY NoteOutputReads
<1> DEFINE chunk == SubSeq(down, 1, n)
           g == MirroredAll(chunk)
<1>2. Len(down) \in Nat /\ n \in 0 .. Len(down) /\ down \in Seq(Output)
  BY LenProperties DEF GateTypeInv
<1>3. Len(chunk) = n /\ \A i \in 1 .. n : chunk[i] = down[i]
  BY <1>2, PrefixProperties
<1>4. Len(down') = Len(down) - n /\ \A i \in 1 .. Len(down) - n : down'[i] = down[n + i]
  BY <1>1, <1>2, RestProperties
<1>5. ~Has(chunk, "[sudo]") /\ ~Has(down', "[sudo]")
  <2>0. ~Has(down, "[sudo]")
    BY DEF TalkInv
  <2>1. \A i \in 1 .. Len(down) : down[i] # "[sudo]"
    BY <2>0 DEF Has
  <2>2. \A i \in 1 .. n : chunk[i] # "[sudo]"
    BY <1>2, <1>3, <2>1
  <2>3. \A i \in 1 .. Len(down) - n : n + i \in 1 .. Len(down)
    BY <1>2
  <2>4. \A i \in 1 .. Len(down) - n : down'[i] # "[sudo]"
    BY <1>4, <2>1, <2>3
  <2> QED
    BY <1>3, <1>4, <2>2, <2>4 DEF Has
<1>6. chunk \in Seq(Output) /\ g \in GateType
  BY <1>1
<1>7. /\ g.expectEnablePass => gate.expectEnablePass /\ g.execPrivileged = gate.execPrivileged
      /\ ~Has(g.devLine, "[sudo]")
      /\ chunk # << >> /\ chunk[Len(chunk)] \in {">", "#"} => ~g.expectEnablePass
  BY <1>5, <1>6, MirroredAllKeeps DEF GateTypeInv, TalkInv
<1>8. /\ gate'.devLine = g.devLine /\ gate'.execPrivileged = g.execPrivileged
      /\ gate'.expectEnablePass <=> g.expectEnablePass
  <2>1. ~sudo
    BY <1>1, <1>7
  <2>2. gate' = Asked(g, asks, inject, sudo)
    BY <1>1
  <2>b. asks \in BOOLEAN /\ inject \in BOOLEAN /\ sudo \in BOOLEAN
    OBVIOUS
  <2> HIDE DEF g
  <2>3. /\ Asked(g, asks, inject, sudo).devLine = g.devLine
        /\ Asked(g, asks, inject, sudo).execPrivileged = g.execPrivileged
        /\ Asked(g, asks, inject, sudo).expectEnablePass <=> g.expectEnablePass \/ sudo
    BY <1>6, <2>b DEF Asked, GateType
  <2> QED
    BY <2>1, <2>2, <2>3
<1>9. output'.pc \in Answering => gate'.expectEnablePass /\ ~gate'.execPrivileged
  BY <1>1, <1>7, <1>8 DEF Answering
<1>10. ASSUME down # << >>, down[Len(down)] \in {">", "#"}, gate'.expectEnablePass
       PROVE  down' # << >> /\ down'[Len(down')] = down[Len(down)]
  <2>1. n # Len(down)
    <3> SUFFICES ASSUME n = Len(down) PROVE FALSE
      OBVIOUS
    <3>1. chunk # << >> /\ chunk[Len(chunk)] = down[Len(down)]
      BY <1>2, <1>3
    <3> QED
      BY <1>7, <1>8, <1>10, <3>1
  <2>2. Len(down) - n \in 1 .. Len(down) - n /\ n + (Len(down) - n) = Len(down)
    BY <1>2, <2>1
  <2> QED
    BY <1>4, <2>2
<1> QED
  BY <1>1, <1>5, <1>7, <1>8, <1>9, <1>10

LEMMA TalkKeeps ==
    ASSUME GateTypeInv, TalkInv, [Next]_vars
    PROVE  TalkInv'
<1> SUFFICES ASSUME device'.mode \in NetModes
             PROVE  ~Has(down', "[sudo]") /\ ~Has(gate'.devLine, "[sudo]")
  BY DEF TalkInv
<1>1. device.mode \in NetModes /\ ~Has(down, "[sudo]") /\ ~Has(gate.devLine, "[sudo]")
  BY NetStays DEF TalkInv
<1>2. \A other : ~Has(<< >>, other)
  BY DEF Has
<1>3. CASE DeviceReads
  <2>1. PICK x \in Sent : Takes(x) /\ (ReadsWord(x) \/ ReadsDel(x) \/ ReadsEnd(x))
    BY <1>3, DeviceDoes
  <2>2. gate' = gate /\ down \in Seq(Output)
    BY <2>1 DEF Takes, GateTypeInv
  <2>3. CASE ReadsWord(x)
    <3>1. x.key \in Output /\ x.key # "[sudo]"
      BY <2>3, WordsAreWords DEF ReadsWord, Output, Text, Prompts
    <3> QED
      BY <1>1, <2>2, <2>3, <3>1, HasAppend DEF ReadsWord
  <2>4. CASE ReadsDel(x)
    BY <1>1, <2>2, <2>4, HasAppend DEF ReadsDel, Output
  <2>5. CASE ReadsEnd(x)
    <3>1. PICK m, tries : Enters(m, tries)
      BY <2>5 DEF ReadsEnd
    <3>2. m \in DOMAIN Prompt \cup {"gone"} /\ ToMode(m, tries) /\ (m # "gone" => m \in NetModes)
      BY <1>1, <3>1 DEF Enters
    <3>3. ~Has(down', "[sudo]")
      BY <1>1, <3>2, ToModeSays
    <3> QED
      BY <1>1, <2>2, <3>3
  <2> QED
    BY <2>1, <2>3, <2>4, <2>5
<1>4. CASE NoteOutput
  BY <1>1, <1>4, NoteKeeps
<1>5. CASE Talks
  BY <1>1, <1>2, <1>5 DEF Talks
<1>6. CASE Closes
  BY <1>1, <1>2, <1>6 DEF Closes
<1>7. CASE UNCHANGED vars
  BY <1>1, <1>7 DEF vars
<1> QED
  BY <1>3, <1>4, <1>5, <1>6, <1>7, GateSteps

\* Of a line end only its own reading is left.
LEMMA LineEndRead ==
    ASSUME GateTypeInv, NEW x \in Sent, Takes(x), ReadsWord(x) \/ ReadsDel(x) \/ ReadsEnd(x),
           LineEnds(x)
    PROVE  \E m, tries : Enters(m, tries) /\ device'.mode = m /\ device'.line = << >>
<1>1. ReadsEnd(x)
  BY WordsAreWords DEF LineEnds, ReadsWord, ReadsDel
<1>2. PICK m, tries : Enters(m, tries)
  BY <1>1 DEF ReadsEnd
<1> QED
  BY <1>2 DEF Enters, ToMode

\* A device at the start of a line stays there while it reads.
LEMMA CleanStays ==
    ASSUME GateTypeInv, Clean, NEW x \in Sent, Takes(x),
           ReadsWord(x) \/ ReadsDel(x) \/ ReadsEnd(x)
    PROVE  Clean'
<1>1. up # << >> /\ LineEnds(up[Len(up)])
  BY DEF Clean, Takes
<1>2. Len(up) \in Nat \ {0} /\ up' \in Seq(Sent) /\ Len(up') = Len(up) - 1
  BY <1>1, EmptySeq, LenProperties DEF GateTypeInv, Takes
<1>3. CASE Len(up) = 1
  <2>1. LineEnds(x) /\ up' = << >>
    BY <1>1, <1>2, <1>3, EmptySeq DEF Takes
  <2>2. device'.line = << >>
    BY <2>1, LineEndRead
  <2> QED
    BY <2>1, <2>2 DEF Clean
<1>4. CASE Len(up) # 1
  <2>1. Len(up') \in 1 .. Len(up') /\ Len(up') + 1 = Len(up)
    BY <1>2, <1>4
  <2>2. up'[Len(up')] = up[Len(up)] /\ up' # << >>
    <3>1. \A i \in 1 .. Len(up') : up'[i] = up[i + 1]
      BY DEF Takes
    <3>2. up'[Len(up')] = up[Len(up')  + 1]
      BY <2>1, <3>1
    <3> QED
      BY <1>2, <1>4, <2>1, <3>2, EmptySeq
  <2> QED
    BY <1>1, <2>2 DEF Clean, LineEnds
<1> QED
  BY <1>3, <1>4

\* What a write but a key's leaves on the channel ends a line.
LEMMA WritesClean ==
    ASSUME GateTypeInv, Writes, ~WritesKey
    PROVE  up' # << >> /\ LineEnds(up'[Len(up')])
<1>0. up \in Seq(Sent) /\ Len(up) \in Nat
  BY LenProperties DEF GateTypeInv
<1>1. ASSUME NEW item \in Sent, up' = Append(up, item), LineEnds(item)
      PROVE  up' # << >> /\ LineEnds(up'[Len(up')])
  <2>1. up' \in Seq(Sent) /\ Len(up') = Len(up) + 1 /\ up'[Len(up) + 1] = item
    BY <1>0, <1>1, AppendProperties
  <2> QED
    BY <1>0, <1>1, <2>1, EmptySeq
<1>2. ASSUME NEW by \in Authors, NEW settled \in BOOLEAN,
             up' = up \o <<Typed(Secret), Enter(by, settled)>>
      PROVE  up' # << >> /\ LineEnds(up'[Len(up')])
  <2>1. Typed(Secret) \in Sent /\ Enter(by, settled) \in Sent
    BY SentTypes
  <2>2. Len(up') = Len(up) + 2 /\ up'[Len(up) + 2] = Enter(by, settled)
    BY <1>0, <1>2, <2>1, TwoMore
  <2> QED
    BY <1>0, <2>2, EmptySeq DEF LineEnds, Enter
<1>3. CASE WritesCancel
  <2>1. Typed("^C") \in Sent /\ LineEnds(Typed("^C"))
    BY SentTypes DEF LineEnds, Typed
  <2> QED
    BY <1>1, <1>3, <2>1 DEF WritesCancel
<1>4. CASE WritesEnter
  <2>1. Enter(input.by, input.settled) \in Sent
    BY SentTypes DEF GateTypeInv, InputRow
  <2>2. LineEnds(Enter(input.by, input.settled))
    BY DEF LineEnds, Enter
  <2> QED
    BY <1>1, <1>4, <2>1, <2>2 DEF WritesEnter
<1>5. CASE WritesAuto
  <2>1. "auto" \in Authors /\ (input.pc \notin Entering) \in BOOLEAN
    BY DEF Authors
  <2> QED
    BY <1>2, <1>5, <2>1 DEF WritesAuto
<1>6. CASE WritesForced
  BY <1>2, <1>6 DEF WritesForced, Authors
<1> QED
  BY <1>3, <1>4, <1>5, <1>6 DEF Writes

LEMMA WaitKeeps ==
    ASSUME GateTypeInv, InputInv, TalkInv, WaitInv, [Next]_vars
    PROVE  WaitInv'
<1> DEFINE Waits ==
             /\ gate.expectEnablePass => Credential
             /\ Awaiting /\ input.pc \notin Entering => Clean
             /\ input.pc \in {"force", "write"} => Clean
             /\ output.pc \in Answering => Awaiting
             /\ Awaiting /\ input.pc \notin Entering /\ up = << >> /\ device.mode # "enable" =>
                   down # << >> /\ down[Len(down)] = Prompt[device.mode]
<1> SUFFICES ASSUME Net' PROVE Waits'
  BY DEF WaitInv
<1>0. Net
  BY NetStays DEF Net
<1>w. Waits
  BY <1>0 DEF WaitInv
<1> HIDE DEF Waits
<1>1. CASE DeviceReads
  <2>1. PICK x \in Sent : Takes(x) /\ (ReadsWord(x) \/ ReadsDel(x) \/ ReadsEnd(x))
    BY <1>1, DeviceDoes
  <2>2. UNCHANGED <<gate, input, output, ending>>
    BY <2>1 DEF Takes
  <2>3. Clean => Clean'
    BY <2>1, CleanStays
  <2>4. Awaiting' <=> Awaiting
    BY <2>2 DEF Awaiting
  <2>5. ASSUME Clean, up' = << >>
        PROVE  down' # << >> /\ down'[Len(down')] = Prompt[device'.mode]
    <3>1. up # << >> /\ LineEnds(up[Len(up)]) /\ x = up[1] /\ Len(up') = Len(up) - 1
      BY <2>1, <2>5 DEF Clean, Takes
    <3>2. LineEnds(x)
      <4>1. Len(up) \in Nat /\ Len(up') = 0
        BY <2>5, EmptySeq, LenProperties DEF GateTypeInv
      <4>2. Len(up) = 1
        BY <3>1, <4>1
      <4> QED
        BY <3>1, <4>2
    <3>3. PICK m, tries : Enters(m, tries) /\ device'.mode = m
      BY <2>1, <3>2, LineEndRead
    <3>4. m \in DOMAIN Prompt \cup {"gone"} /\ ToMode(m, tries) /\ m # "gone"
      BY <3>3 DEF Enters, Net, NetModes
    <3> QED
      BY <3>3, <3>4, ToModeSays
  <2> QED
    BY <1>w, <2>2, <2>3, <2>4, <2>5 DEF Waits, Credential
<1>2. CASE NoteOutput
  <2>1. device.mode \in NetModes
    BY <1>0 DEF Net
  <2>2. /\ gate'.expectEnablePass =>
              gate.expectEnablePass /\ gate'.execPrivileged = gate.execPrivileged
        /\ output'.pc \in Answering => gate'.expectEnablePass /\ ~gate'.execPrivileged
        /\ down # << >> /\ down[Len(down)] \in {">", "#"} /\ gate'.expectEnablePass
              => down' # << >> /\ down'[Len(down')] = down[Len(down)]
        /\ UNCHANGED <<input, up, device, ending, ran>>
    BY <1>2, <2>1, NoteKeeps
  <2>3. (Awaiting' => Awaiting) /\ (output'.pc \in Answering => Awaiting') /\ (Clean' <=> Clean)
    BY <2>2 DEF Awaiting, Clean, LineEnds
  <2>4. device.mode # "enable" => Prompt[device.mode] \in {">", "#"}
    BY <2>1 DEF NetModes, Prompt
  <2>5. ASSUME Awaiting', input'.pc \notin Entering, up' = << >>, device'.mode # "enable"
        PROVE  down' # << >> /\ down'[Len(down')] = Prompt[device'.mode]
    <3>1. down # << >> /\ down[Len(down)] = Prompt[device.mode]
      BY <1>w, <2>2, <2>3, <2>5 DEF Waits
    <3> QED
      BY <2>2, <2>4, <2>5, <3>1 DEF Awaiting
  <2>6. gate'.expectEnablePass => Credential'
    BY <1>w, <2>2 DEF Waits, Credential
  <2> QED
    BY <1>w, <2>2, <2>3, <2>5, <2>6 DEF Waits
<1>3. CASE Talks
  <2>1. /\ UNCHANGED <<down, device, ran>> /\ ending # "closed"
        /\ Thinks \/ Writes
    BY <1>0, <1>3 DEF Talks, Net
  <2>2. Awaiting' => Awaiting \/ input'.pc \in Entering
    BY <1>3 DEF Talks, Awaiting, Entering
  <2>3. gate'.expectEnablePass => Credential
    BY <1>3, <1>w DEF Talks, Waits, InputInv
  <2>4. output'.pc \in Answering => Awaiting'
    BY <1>3, <1>w DEF Talks, Waits, Awaiting
  <2>5. CASE Thinks
    <3>1. Clean' <=> Clean
      BY <2>1, <2>5 DEF Thinks, Clean, LineEnds
    <3>2. Waiting /\ input.pc = "key" => Clean
      BY <1>w DEF Waits, Waiting, Awaiting, Entering
    <3> QED
      BY <1>w, <2>1, <2>2, <2>3, <2>4, <2>5, <3>1, <3>2 DEF Waits, Thinks, Credential
  <2>6. CASE WritesKey
    <3>1. ~Awaiting
      BY <1>w, <2>6 DEF WritesKey, Waits, Waiting, Awaiting
    <3>2. input'.pc = "read" /\ ~Awaiting'
      BY <2>2, <2>6, <3>1 DEF WritesKey, Entering
    <3> QED
      BY <2>3, <2>4, <3>2 DEF Waits, Credential
  <2>7. CASE Writes /\ ~WritesKey
    <3>1. up' # << >> /\ Clean'
      BY <2>7, WritesClean DEF Clean
    <3> QED
      BY <2>3, <2>4, <3>1 DEF Waits, Credential
  <2> QED
    BY <2>1, <2>5, <2>6, <2>7
<1>4. CASE Closes
  BY <1>4 DEF Closes, Net
<1>5. CASE UNCHANGED vars
  BY <1>5, <1>w DEF vars, Waits, Awaiting, Clean, LineEnds, Credential
<1> QED
  BY <1>1, <1>2, <1>3, <1>4, <1>5, GateSteps

LEMMA OwnKeeps ==
    ASSUME GateTypeInv, InputInv, WaitInv, OwnInv, [Next]_vars
    PROVE  OwnInv'
<1> DEFINE Stands(s, line, i) ==
             /\ s[i].key = "CR"
             /\ i = 1 => line = <<Secret>>
             /\ i = 2 => line = << >>
             /\ i >= 2 => s[i - 1] = Typed(Secret)
             /\ i >= 3 => LineEnds(s[i - 2])
<1> SUFFICES ASSUME Net', NEW i \in 1 .. Len(up'), Own(up'[i])
             PROVE  Stands(up', device'.line, i)
  BY DEF OwnInv, Own, LineEnds
<1>0. Net
  BY NetStays DEF Net
<1>s. \A j \in 1 .. Len(up) : Own(up[j]) => Stands(up, device.line, j)
  BY <1>0 DEF OwnInv
<1>n. up \in Seq(Sent) /\ Len(up) \in Nat
  BY LenProperties DEF GateTypeInv
<1>k. \A k : Typed(k).key = k /\ ~Own(Typed(k))
  BY DEF Typed, Own
<1>1. CASE DeviceReads
  <2>1. PICK x \in Sent : Takes(x) /\ (ReadsWord(x) \/ ReadsDel(x) \/ ReadsEnd(x))
    BY <1>1, DeviceDoes
  <2>2. /\ Len(up') = Len(up) - 1 /\ \A j \in 1 .. Len(up') : up'[j] = up[j + 1]
        /\ x = up[1]
    BY <2>1 DEF Takes
  <2>3. i \in Nat /\ i >= 1 /\ i + 1 \in 1 .. Len(up) /\ up'[i] = up[i + 1]
    BY <1>n, <2>2
  <2>4. Stands(up, device.line, i + 1)
    BY <1>s, <2>3
  <2>5. up'[i].key = "CR"
    BY <2>3, <2>4
  <2>6. i >= 2 => up'[i - 1] = up[i]
    BY <1>n, <2>2, <2>3
  <2>7. i >= 3 => up'[i - 2] = up[i - 1]
    BY <1>n, <2>2, <2>3
  <2>8. ASSUME i = 1 PROVE device'.line = <<Secret>>
    <3>1. device.line = << >> /\ x = Typed(Secret)
      BY <2>2, <2>3, <2>4, <2>8
    <3>2. x.key = Secret /\ Secret \notin {"DEL", "CR", "LF", "^C"}
      BY <1>k, <3>1, WordsAreWords
    <3>3. ReadsWord(x)
      BY <2>1, <3>2 DEF ReadsDel, ReadsEnd
    <3>4. device'.line = Append(device.line, Secret)
      BY <3>2, <3>3 DEF ReadsWord, GateTypeInv, DeviceRow
    <3> QED
      BY <3>1, <3>4
  <2>9. ASSUME i = 2 PROVE device'.line = << >>
    <3>1. LineEnds(x)
      BY <2>2, <2>3, <2>4, <2>9
    <3> QED
      BY <2>1, <3>1, LineEndRead
  <2>10. i >= 2 => up'[i - 1] = Typed(Secret)
    BY <2>3, <2>4, <2>6
  <2>11. i >= 3 => LineEnds(up'[i - 2])
    BY <2>3, <2>4, <2>7
  <2> QED
    BY <2>5, <2>8, <2>9, <2>10, <2>11
<1>2. ASSUME up' = up, device' = device PROVE Stands(up', device'.line, i)
  BY <1>2, <1>s
<1>3. ASSUME NEW item \in Sent, up' = Append(up, item), ~Own(item), device' = device
      PROVE  Stands(up', device'.line, i)
  <2>1. /\ Len(up') = Len(up) + 1 /\ \A j \in 1 .. Len(up) : up'[j] = up[j]
        /\ up'[Len(up) + 1] = item
    BY <1>3, <1>n, AppendProperties
  <2>2. i \in 1 .. Len(up)
    BY <1>3, <1>n, <2>1
  <2>3. Stands(up, device.line, i)
    BY <1>s, <2>1, <2>2
  <2>4. up'[i] = up[i] /\ (i >= 2 => up'[i - 1] = up[i - 1]) /\ (i >= 3 => up'[i - 2] = up[i - 2])
    BY <1>n, <2>1, <2>2
  <2> QED
    BY <1>3, <2>3, <2>4
<1>4. ASSUME NEW by \in Authors, NEW settled \in BOOLEAN, settled => Clean, device' = device,
             up' = up \o <<Typed(Secret), Enter(by, settled)>>
      PROVE  Stands(up', device'.line, i)
  <2>0. Typed(Secret) \in Sent /\ Enter(by, settled) \in Sent
    BY SentTypes
  <2>1. /\ Len(up') = Len(up) + 2 /\ \A j \in 1 .. Len(up) : up'[j] = up[j]
        /\ up'[Len(up) + 1] = Typed(Secret) /\ up'[Len(up) + 2] = Enter(by, settled)
    BY <1>4, <1>n, <2>0, TwoMore
  <2>2. i # Len(up) + 1
    BY <1>k, <2>1
  <2>3. CASE i \in 1 .. Len(up)
    <3>1. Stands(up, device.line, i)
      BY <1>s, <2>1, <2>3
    <3>2. up'[i] = up[i] /\ (i >= 2 => up'[i - 1] = up[i - 1]) /\ (i >= 3 => up'[i - 2] = up[i - 2])
      BY <1>n, <2>1, <2>3
    <3> QED
      BY <1>4, <3>1, <3>2
  <2>4. CASE i = Len(up) + 2
    <3>1. up'[i].key = "CR" /\ settled
      BY <2>1, <2>4 DEF Enter, Own
    <3>2. i >= 2 /\ i - 1 = Len(up) + 1 /\ i - 2 = Len(up)
      BY <1>n, <2>4
    <3>3. up'[i - 1] = Typed(Secret)
      BY <2>1, <3>2
    <3>4. ASSUME i = 2 PROVE device'.line = << >>
      <4>1. up = << >>
        BY <1>n, <3>2, <3>4, EmptySeq
      <4> QED
        BY <1>4, <3>1, <4>1 DEF Clean
    <3>5. ASSUME i >= 3 PROVE LineEnds(up'[i - 2])
      <4>1. Len(up) \in 1 .. Len(up) /\ up # << >>
        BY <1>n, <3>2, <3>5, EmptySeq
      <4>2. up'[i - 2] = up[Len(up)]
        BY <2>1, <3>2, <4>1
      <4> QED
        BY <1>4, <3>1, <4>1, <4>2 DEF Clean
    <3> QED
      BY <3>1, <3>2, <3>3, <3>4, <3>5
  <2> QED
    BY <1>n, <2>1, <2>2, <2>3, <2>4
<1>5. CASE Talks
  <2>1. device' = device /\ (Thinks \/ Writes)
    BY <1>0, <1>5 DEF Talks, Net
  <2>w. /\ input.pc = "write" => Clean
        /\ output.pc = "write" /\ input.pc \notin Entering => Clean
    BY <1>0 DEF WaitInv, Answering
  <2>2. CASE Thinks
    BY <1>2, <2>1, <2>2 DEF Thinks
  <2>3. CASE WritesKey
    <3>1. PICK k \in Keys : up' = Append(up, Typed(k))
      BY <2>3 DEF WritesKey
    <3>2. Typed(k) \in Sent
      BY SentTypes
    <3> QED
      BY <1>3, <1>k, <2>1, <3>1, <3>2
  <2>4. CASE WritesCancel
    <3>1. Typed("^C") \in Sent
      BY SentTypes
    <3> QED
      BY <1>3, <1>k, <2>1, <2>4, <3>1 DEF WritesCancel
  <2>5. CASE WritesEnter
    <3>1. Enter(input.by, input.settled) \in Sent
      BY SentTypes DEF GateTypeInv, InputRow
    <3>2. ~Own(Enter(input.by, input.settled))
      BY DEF Own, Enter, InputInv
    <3> QED
      BY <1>3, <2>1, <2>5, <3>1, <3>2 DEF WritesEnter
  <2>6. CASE WritesAuto
    <3>1. "auto" \in Authors /\ (input.pc \notin Entering) \in BOOLEAN
      BY DEF Authors
    <3> QED
      BY <1>4, <2>1, <2>w, <2>6, <3>1 DEF WritesAuto
  <2>7. CASE WritesForced
    BY <1>4, <2>1, <2>w, <2>7 DEF WritesForced, Authors
  <2> QED
    BY <2>1, <2>2, <2>3, <2>4, <2>5, <2>6, <2>7 DEF Writes
<1>6. CASE NoteOutput
  BY <1>2, <1>6 DEF NoteOutput
<1>7. CASE Closes
  BY <1>7 DEF Closes, Net
<1>8. CASE UNCHANGED vars
  BY <1>2, <1>8 DEF vars
<1> QED
  BY <1>1, <1>5, <1>6, <1>7, <1>8, GateSteps

LEMMA RanKeeps ==
    ASSUME GateTypeInv, ClosedInv, OwnInv, RanInv, [Next]_vars
    PROVE  RanInv'
<1>1. CASE DeviceReads
  <2> SUFFICES ASSUME device'.mode \in NetModes, Own(ran)' PROVE ran'.line = <<Secret>>
    BY DEF RanInv
  <2>1. PICK x \in Sent : Takes(x) /\ (ReadsWord(x) \/ ReadsDel(x) \/ ReadsEnd(x))
    BY <1>1, DeviceDoes
  <2>2. Net
    BY <2>1, NetStays DEF Net, ClosedInv, Takes
  <2>3. CASE UNCHANGED ran
    BY <2>2, <2>3 DEF RanInv, Own, Net
  <2>4. CASE ran' = [line |-> device.line, by |-> x.by, settled |-> x.settled]
    <3>1. up # << >> /\ x = up[1] /\ Own(x)
      BY <2>1, <2>4 DEF Takes, Own
    <3>2. 1 \in 1 .. Len(up)
      BY <3>1, EmptySeq, LenProperties DEF GateTypeInv
    <3>3. device.line = <<Secret>>
      BY <2>2, <3>1, <3>2 DEF OwnInv
    <3> QED
      BY <2>4, <3>3
  <2> QED
    BY <2>1, <2>3, <2>4 DEF ReadsWord, ReadsDel, ReadsEnd
<1>2. ASSUME device'.mode \in NetModes, UNCHANGED ran PROVE Own(ran)' => ran'.line = <<Secret>>
  BY <1>2, NetStays DEF RanInv, Own
<1>3. CASE NoteOutput
  BY <1>2, <1>3 DEF NoteOutput, RanInv
<1> QED
  BY <1>1, <1>2, <1>3, GateSteps DEF Talks, Closes, vars, RanInv

LEMMA NetInit ==
    ASSUME Init
    PROVE  NetInv
<1>1. /\ gate.expectEnablePass = FALSE /\ gate.devLine = << >> /\ output.pc = "read"
      /\ up = << >> /\ ending = "no"
      /\ ran.by = "judged" /\ input.by = "judged" /\ input.pc = "read"
  BY DEF Init, Reading
<1>2. PICK m \in {"user", "exec", "shell"} : device.mode = m /\ down = <<Prompt[m]>>
  BY DEF Init
<1>3. m \in NetModes => ~Has(down, "[sudo]")
  BY <1>2 DEF NetModes, Prompt, Has
<1>4. ~Has(gate.devLine, "[sudo]")
  BY <1>1 DEF Has
<1>5. ClosedInv /\ InputInv /\ TalkInv
  BY <1>1, <1>2, <1>3, <1>4 DEF ClosedInv, InputInv, TalkInv
<1>6. WaitInv
  BY <1>1 DEF WaitInv, Awaiting, Answering
<1>7. OwnInv /\ RanInv
  BY <1>1 DEF OwnInv, RanInv, Own
<1> QED
  BY <1>5, <1>6, <1>7 DEF NetInv

LEMMA NetNext ==
    ASSUME GateTypeInv, NetInv, [Next]_vars
    PROVE  NetInv'
BY ClosedKeeps, InputKeeps, TalkKeeps, WaitKeeps, OwnKeeps, RanKeeps DEF NetInv

\* KeysPass: at a network device's prompt with nothing on its way, the user's
\* keys are no longer swallowed for a password that nobody asks for any more.
THEOREM KeysPassAgain == Spec => []KeysPass
<1>1. GateTypeInv /\ NetInv => KeysPass
  BY DEF NetInv, WaitInv, KeysPass, Net, NetModes, Awaiting, Waiting, Quiet, Entering
<1> QED
  BY <1>1, InitType, NextType, NetInit, NetNext, PTL DEF Spec

\* SecretStandsAlone: what the gate itself enters at a network device's command
\* prompt is the secret and nothing the user typed before it, unless the user's
\* own Enter had been judged and was still to be written.
THEOREM SecretAlone == Spec => []SecretStandsAlone
<1>1. NetInv => SecretStandsAlone
  BY DEF NetInv, RanInv, SecretStandsAlone, NetModes, Own
<1> QED
  BY <1>1, InitType, NextType, NetInit, NetNext, PTL DEF Spec

-----------------------------------------------------------------------------
(* Any device: what is judged is what runs.                                *)

Live == device.mode # "gone" /\ ending # "closed"

\* What a terminal shows that showed line and is sent the tokens.
Shows(line, tokens, shown) ==
    \E F : /\ F[0] = line
           /\ \A i \in 1 .. Len(tokens) : F[i] = Show(F[i - 1], tokens[i])
           /\ F[Len(tokens)] = shown

\* What the device has at the end of its screen.
Screen == <<Prompt[device.mode]>> \o (IF device.mode \in Asking THEN << >> ELSE device.line)

\* The end of a line is still to be read by the device, or written to it.
Owed == input.pc \in Ending \/ \E i \in 1 .. Len(up) : LineEnds(up[i])

\* But for that, the line that is mirrored becomes the device's own.
SyncInv == Live /\ ~Owed => Shows(gate.devLine, down, Screen)

Harmless ==
    device.mode \notin Asking =>
        device.line = << >> \/ CommandAllowed(device.line, Allow, Deny)

\* A line that was judged when the device had shown all of it is still the
\* device's line, with nothing before its Enter.
JudgedInv == Live =>
    /\ Seen(input) /\ input.pc \in Judging => Quiet /\ Harmless
    /\ \A i \in 1 .. Len(up) : Seen(up[i]) => i = 1 /\ Harmless

LEMMA ShowsAppend ==
    ASSUME NEW tokens \in Seq(Output), NEW token \in Output, NEW line, NEW shown,
           Shows(line, tokens, shown)
    PROVE  Shows(line, Append(tokens, token), Show(shown, token))
<1>1. PICK F : /\ F[0] = line
               /\ \A i \in 1 .. Len(tokens) : F[i] = Show(F[i - 1], tokens[i])
               /\ F[Len(tokens)] = shown
  BY DEF Shows
<1>2. Len(tokens) \in Nat
  BY LenProperties
<1> DEFINE n == Len(tokens)
           longer == Append(tokens, token)
           G == [i \in 0 .. n + 1 |-> IF i = n + 1 THEN Show(shown, token) ELSE F[i]]
<1>3. /\ Len(longer) = n + 1 /\ longer[n + 1] = token
      /\ \A i \in 1 .. n : longer[i] = tokens[i]
  BY AppendProperties
<1>4. G[0] = line /\ G[n + 1] = Show(shown, token)
  BY <1>1, <1>2
<1>5. ASSUME NEW i \in 1 .. n + 1 PROVE G[i] = Show(G[i - 1], longer[i])
  <2>1. CASE i = n + 1
    <3>1. G[i] = Show(shown, token) /\ G[i - 1] = F[n]
      BY <1>2, <2>1
    <3> QED
      BY <1>1, <1>3, <2>1, <3>1
  <2>2. CASE i # n + 1
    <3>1. i \in 1 .. n /\ G[i] = F[i] /\ G[i - 1] = F[i - 1]
      BY <1>2, <2>2
    <3> QED
      BY <1>1, <1>3, <3>1
  <2> QED
    BY <2>1, <2>2
<1> HIDE DEF G, longer
<1>6. G[Len(longer)] = Show(shown, token) /\ \A i \in 1 .. Len(longer) : G[i] = Show(G[i - 1], longer[i])
  BY <1>3, <1>4, <1>5
<1>7. Shows(line, longer, Show(shown, token))
  BY <1>4, <1>6 DEF Shows
<1> QED
  BY <1>7 DEF longer

\* The end of a line leaves the new prompt on the screen, whatever was there.
LEMMA ShowsPrompt ==
    ASSUME NEW tokens \in Seq(Output), NEW token \in Text, NEW line, NEW shown,
           Shows(line, tokens, shown)
    PROVE  Shows(line, Append(Append(tokens, "NL"), token), <<token>>)
<1>1. "NL" \in Output /\ token \in Output /\ token \notin {"NL", "BS"}
  BY WordsAreWords DEF Output, Text, Prompts
<1>2. Append(tokens, "NL") \in Seq(Output)
  BY <1>1, AppendProperties
<1>3. Show(shown, "NL") = << >> /\ Show(<< >>, token) = <<token>>
  BY <1>1 DEF Show
<1>4. Shows(line, Append(tokens, "NL"), << >>)
  BY <1>1, <1>3, ShowsAppend
<1> QED
  BY <1>1, <1>2, <1>3, <1>4, ShowsAppend

\* Every output shows something.
LEMMA ShowsSome ==
    ASSUME GateTypeInv
    PROVE  \E shown : Shows(gate.devLine, down, shown)
<1>1. down \in Seq(Output) /\ gate \in GateType /\ Len(down) \in Nat
  BY LenProperties DEF GateTypeInv
<1>2. /\ MirroredBy(down)[0] = gate
      /\ \A i \in 1 .. Len(down) :
            MirroredBy(down)[i] = Mirrored(MirroredBy(down)[i - 1], down[i])
  BY <1>1, MirroredByDef
<1> DEFINE f == MirroredBy(down)
           F == [i \in 0 .. Len(down) |-> f[i].devLine]
           Good == {i \in 0 .. Len(down) : f[i] \in GateType}
<1> HIDE DEF f
<1>3. f[0] = gate /\ \A i \in 1 .. Len(down) : f[i] = Mirrored(f[i - 1], down[i])
  BY <1>2 DEF f
<1>4. \A i \in 1 .. Len(down) : down[i] \in Output
  BY <1>1, ElementOfSeq
<1>5. \A i \in 0 .. Len(down) : f[i] \in GateType
  <2>1. 0 \in Good
    BY <1>1, <1>3
  <2>2. ASSUME NEW i \in 1 .. Len(down), i - 1 \in Good PROVE i \in Good
    <3>1. f[i - 1] \in GateType
      BY <2>2
    <3>2. f[i] \in GateType
      BY <1>3, <1>4, <3>1, MirroredKeeps
    <3> QED
      BY <1>1, <3>2
  <2> HIDE DEF Good
  <2>3. \A i \in 0 .. Len(down) : i \in Good
    BY <1>1, <2>1, <2>2, Climb
  <2> QED
    BY <2>3 DEF Good
<1>6. ASSUME NEW i \in 1 .. Len(down) PROVE F[i] = Show(F[i - 1], down[i])
  <2>1. i \in 0 .. Len(down) /\ i - 1 \in 0 .. Len(down)
    BY <1>1
  <2>2. F[i] = f[i].devLine /\ F[i - 1] = f[i - 1].devLine
    BY <2>1
  <2>3. f[i].devLine = Show(f[i - 1].devLine, down[i])
    BY <1>3, <1>4, <1>5, <2>1, MirroredShows
  <2> QED
    BY <2>2, <2>3
<1>7. F[0] = gate.devLine
  BY <1>1, <1>3
<1> HIDE DEF F
<1>8. Shows(gate.devLine, down, F[Len(down)])
  BY <1>6, <1>7 DEF Shows
<1> QED
  BY <1>8

\* noteOutput mirrors what it reads, so that the screen to come is the same.
LEMMA NoteShows ==
    ASSUME GateTypeInv, NoteOutput, NEW shown, Shows(gate.devLine, down, shown)
    PROVE  Shows(gate'.devLine, down', shown)
<1>1. PICK n \in 1 .. Len(down), asks \in BOOLEAN, inject \in BOOLEAN, sudo \in BOOLEAN :
        /\ SubSeq(down, 1, n) \in Seq(Output) /\ MirroredAll(SubSeq(down, 1, n)) \in GateType
        /\ gate' = Asked(MirroredAll(SubSeq(down, 1, n)), asks, inject, sudo)
        /\ down' = SubSeq(down, n + 1, Len(down))
  BY NoteOutputReads
<1> DEFINE chunk == SubSeq(down, 1, n)
           g == MirroredAll(chunk)
<1>2. Len(down) \in Nat /\ n \in 0 .. Len(down) /\ down \in Seq(Output) /\ n \in Nat
  BY LenProperties DEF GateTypeInv
<1>3. Len(chunk) = n /\ \A i \in 1 .. n : chunk[i] = down[i]
  BY <1>2, PrefixProperties
<1>4. Len(down') = Len(down) - n /\ \A i \in 1 .. Len(down) - n : down'[i] = down[n + i]
  BY <1>1, <1>2, RestProperties
<1>5. PICK F : /\ F[0] = gate.devLine
               /\ \A i \in 1 .. Len(down) : F[i] = Show(F[i - 1], down[i])
               /\ F[Len(down)] = shown
  BY DEF Shows
<1>6. \A i \in 1 .. n : F[i] = Show(F[i - 1], chunk[i])
  <2>1. \A i \in 1 .. n : i \in 1 .. Len(down)
    BY <1>2
  <2> QED
    BY <1>3, <1>5, <2>1
<1>7. g.devLine = F[n] /\ g \in GateType
  <2>1. chunk \in Seq(Output) /\ gate \in GateType
    BY <1>1 DEF GateTypeInv
  <2> HIDE DEF chunk
  <2>2. \A H : /\ H[0] = gate.devLine
               /\ \A i \in 1 .. Len(chunk) : H[i] = Show(H[i - 1], chunk[i])
             => MirroredAll(chunk).devLine = H[Len(chunk)]
    BY <2>1, MirroredAllKeeps
  <2>3. MirroredAll(chunk).devLine = F[Len(chunk)]
    BY <1>3, <1>5, <1>6, <2>2
  <2>4. MirroredAll(chunk) \in GateType
    BY <1>1 DEF chunk
  <2> QED
    BY <1>3, <2>3, <2>4
<1>8. gate'.devLine = F[n]
  <2>1. gate' = Asked(g, asks, inject, sudo)
    BY <1>1
  <2> HIDE DEF g
  <2> QED
    BY <1>7, <2>1 DEF Asked, GateType
<1> DEFINE G == [i \in 0 .. Len(down) - n |-> F[n + i]]
<1>9. G[0] = gate'.devLine /\ G[Len(down')] = shown
  BY <1>2, <1>4, <1>5, <1>8
<1>10. ASSUME NEW i \in 1 .. Len(down') PROVE G[i] = Show(G[i - 1], down'[i])
  <2>1. i \in 1 .. Len(down) - n /\ i - 1 \in 0 .. Len(down) - n /\ n + i \in 1 .. Len(down)
        /\ n + (i - 1) = n + i - 1
    BY <1>2, <1>4
  <2>2. G[i] = F[n + i] /\ G[i - 1] = F[n + i - 1] /\ down'[i] = down[n + i]
    BY <1>4, <2>1
  <2> QED
    BY <1>5, <2>1, <2>2
<1> HIDE DEF G
<1> QED
  BY <1>9, <1>10 DEF Shows

\* How the screen changes with the line.
LEMMA ScreenProperties ==
    ASSUME NEW p, NEW S, p \in S, NEW line \in Seq(S)
    PROVE  /\ <<p>> \o line \in Seq(S) /\ <<p>> \o line # << >> /\ <<p>> \o << >> = <<p>>
           /\ Len(<<p>> \o line) = Len(line) + 1 /\ (<<p>> \o line)[1] = p
           /\ \A i \in 1 .. Len(line) : (<<p>> \o line)[i + 1] = line[i]
           /\ \A w \in S : <<p>> \o Append(line, w) = Append(<<p>> \o line, w)
           /\ line # << >> => <<p>> \o Front(line) = Front(<<p>> \o line)
<1>1. \A s \in Seq(S) : /\ <<p>> \o s \in Seq(S) /\ Len(<<p>> \o s) = Len(s) + 1
                        /\ (<<p>> \o s)[1] = p
                        /\ \A i \in 1 .. Len(s) : (<<p>> \o s)[i + 1] = s[i]
  <2> SUFFICES ASSUME NEW s \in Seq(S)
               PROVE  /\ <<p>> \o s \in Seq(S) /\ Len(<<p>> \o s) = Len(s) + 1
                      /\ (<<p>> \o s)[1] = p
                      /\ \A i \in 1 .. Len(s) : (<<p>> \o s)[i + 1] = s[i]
    OBVIOUS
  <2>1. <<p>> \in Seq(S) /\ Len(<<p>>) = 1 /\ <<p>>[1] = p /\ Len(s) \in Nat
    BY LenProperties
  <2>2. /\ <<p>> \o s \in Seq(S) /\ Len(<<p>> \o s) = 1 + Len(s)
        /\ \A i \in 1 .. 1 + Len(s) :
              (<<p>> \o s)[i] = IF i <= 1 THEN <<p>>[i] ELSE s[i - 1]
    BY <2>1, ConcatProperties
  <2>3. \A i \in 1 .. Len(s) : i + 1 \in 1 .. 1 + Len(s) /\ ~ (i + 1 <= 1) /\ i + 1 - 1 = i
    BY <2>1
  <2> QED
    BY <2>1, <2>2, <2>3
<1>2. Len(line) \in Nat
  BY LenProperties
<1>3. <<p>> \o line # << >>
  BY <1>1, <1>2, EmptySeq
<1>4. <<p>> \o << >> = <<p>>
  OBVIOUS
<1>5. ASSUME NEW w \in S PROVE <<p>> \o Append(line, w) = Append(<<p>> \o line, w)
  <2>1. /\ Append(line, w) \in Seq(S) /\ Len(Append(line, w)) = Len(line) + 1
        /\ \A i \in 1 .. Len(line) : Append(line, w)[i] = line[i]
        /\ Append(line, w)[Len(line) + 1] = w
    BY AppendProperties
  <2>2. /\ Append(<<p>> \o line, w) \in Seq(S) /\ Len(Append(<<p>> \o line, w)) = Len(line) + 2
        /\ \A i \in 1 .. Len(line) + 1 : Append(<<p>> \o line, w)[i] = (<<p>> \o line)[i]
        /\ Append(<<p>> \o line, w)[Len(line) + 2] = w
    BY <1>1, <1>2, AppendProperties
  <2>3. /\ <<p>> \o Append(line, w) \in Seq(S) /\ Len(<<p>> \o Append(line, w)) = Len(line) + 2
        /\ (<<p>> \o Append(line, w))[1] = p
        /\ \A i \in 1 .. Len(line) + 1 : (<<p>> \o Append(line, w))[i + 1] = Append(line, w)[i]
    BY <1>1, <1>2, <2>1
  <2>4. ASSUME NEW i \in 1 .. Len(line) + 2
        PROVE  (<<p>> \o Append(line, w))[i] = Append(<<p>> \o line, w)[i]
    <3>1. CASE i = 1
      BY <1>1, <1>2, <2>2, <2>3, <3>1
    <3>2. CASE i = Len(line) + 2
      <4>1. (<<p>> \o Append(line, w))[(Len(line) + 1) + 1] = Append(line, w)[Len(line) + 1]
        BY <1>2, <2>3
      <4> QED
        BY <1>2, <2>1, <2>2, <3>2, <4>1
    <3>3. CASE i # 1 /\ i # Len(line) + 2
      <4>1. i - 1 \in 1 .. Len(line) /\ (i - 1) + 1 = i /\ i \in 1 .. Len(line) + 1
        BY <1>2, <3>3
      <4>2. (<<p>> \o Append(line, w))[i] = line[i - 1]
        <5>1. (<<p>> \o Append(line, w))[(i - 1) + 1] = Append(line, w)[i - 1]
          BY <1>2, <2>3, <4>1
        <5> QED
          BY <2>1, <4>1, <5>1
      <4>3. (<<p>> \o line)[(i - 1) + 1] = line[i - 1]
        BY <1>1, <4>1
      <4> QED
        BY <2>2, <4>1, <4>2, <4>3
    <3> QED
      BY <3>1, <3>2, <3>3
  <2> QED
    BY <2>2, <2>3, <2>4, SeqEqual
<1>6. ASSUME line # << >> PROVE <<p>> \o Front(line) = Front(<<p>> \o line)
  <2>1. /\ Front(line) \in Seq(S) /\ Len(Front(line)) = Len(line) - 1
        /\ \A i \in 1 .. Len(line) - 1 : Front(line)[i] = line[i]
    BY <1>6, FrontProperties
  <2>2. /\ Front(<<p>> \o line) \in Seq(S) /\ Len(Front(<<p>> \o line)) = Len(line)
        /\ \A i \in 1 .. Len(line) : Front(<<p>> \o line)[i] = (<<p>> \o line)[i]
    <3>1. Len(<<p>> \o line) - 1 = Len(line)
      BY <1>1, <1>2
    <3> QED
      BY <1>1, <1>3, <3>1, FrontProperties
  <2>3. /\ <<p>> \o Front(line) \in Seq(S) /\ Len(<<p>> \o Front(line)) = Len(line)
        /\ (<<p>> \o Front(line))[1] = p
        /\ \A i \in 1 .. Len(line) - 1 : (<<p>> \o Front(line))[i + 1] = line[i]
    BY <1>1, <1>2, <2>1
  <2>4. ASSUME NEW i \in 1 .. Len(line) PROVE (<<p>> \o Front(line))[i] = Front(<<p>> \o line)[i]
    <3>1. CASE i = 1
      BY <1>1, <1>2, <2>2, <2>3, <3>1
    <3>2. CASE i # 1
      <4>1. i - 1 \in 1 .. Len(line) - 1 /\ i - 1 \in 1 .. Len(line) /\ (i - 1) + 1 = i
        BY <1>2, <3>2
      <4>2. (<<p>> \o Front(line))[i] = line[i - 1]
        BY <2>3, <4>1
      <4>3. (<<p>> \o line)[i] = line[i - 1]
        BY <1>1, <4>1
      <4> QED
        BY <2>2, <4>2, <4>3
    <3> QED
      BY <3>1, <3>2
  <2> QED
    BY <2>2, <2>3, <2>4, SeqEqual
<1> QED
  BY <1>1, <1>3, <1>4, <1>5, <1>6

\* The command on a screen that ends with a prompt and a line of words.
LEMMA AfterPromptOf ==
    ASSUME NEW p \in {">", "#", "$"}, NEW line \in Seq(Words)
    PROVE  AfterPrompt(<<p>> \o line) = line
<1> DEFINE s == <<p>> \o line
           cut == {i \in 1 .. Len(s) : s[i] \in {">", "#", "$"}}
           last == CHOOSE i \in cut : \A j \in cut : j <= i
<1>1. p \in Text /\ line \in Seq(Text)
  BY SeqMonotonic DEF Text, Prompts
<1>2. /\ s \in Seq(Text) /\ Len(s) = Len(line) + 1 /\ s[1] = p
      /\ \A i \in 1 .. Len(line) : s[i + 1] = line[i]
  BY <1>1, ScreenProperties
<1>3. Len(line) \in Nat /\ \A i \in 1 .. Len(line) : line[i] \in Words
  BY LenProperties, ElementOfSeq
<1>4. \A w \in Words : w \notin {">", "#", "$"}
  BY WordsAreWords DEF Prompts
<1> HIDE DEF s
<1>5. cut = {1}
  <2>1. 1 \in cut
    BY <1>2, <1>3
  <2>2. ASSUME NEW i \in cut PROVE i = 1
    <3> SUFFICES ASSUME i # 1 PROVE FALSE
      OBVIOUS
    <3>1. i - 1 \in 1 .. Len(line) /\ (i - 1) + 1 = i
      BY <1>2, <1>3
    <3>2. s[i] = line[i - 1]
      BY <1>2, <3>1
    <3> QED
      BY <1>3, <1>4, <3>1, <3>2
  <2> QED
    BY <2>1, <2>2
<1>6. last = 1
  <2> HIDE DEF cut
  <2>1. \E i \in cut : \A j \in cut : j <= i
    BY <1>5
  <2>2. last \in cut
    BY <2>1
  <2> QED
    BY <1>5, <2>2
<1>7. AfterPrompt(s) = SubSeq(s, 1 + 1, Len(s))
  <2>1. AfterPrompt(s) = IF cut = {} THEN s ELSE SubSeq(s, last + 1, Len(s))
    BY DEF AfterPrompt
  <2> HIDE DEF cut, last
  <2> QED
    BY <1>5, <1>6, <2>1
<1>8. /\ SubSeq(s, 1 + 1, Len(s)) \in Seq(Text) /\ Len(SubSeq(s, 1 + 1, Len(s))) = Len(line)
      /\ \A i \in 1 .. Len(line) : SubSeq(s, 1 + 1, Len(s))[i] = s[1 + i]
  <2>1. 1 \in 0 .. Len(s) /\ Len(s) - 1 = Len(line)
    BY <1>2, <1>3
  <2> QED
    BY <1>2, <2>1, RestProperties
<1>9. \A i \in 1 .. Len(line) : SubSeq(s, 1 + 1, Len(s))[i] = line[i]
  BY <1>2, <1>3, <1>8
<1>10. SubSeq(s, 1 + 1, Len(s)) = line
  BY <1>1, <1>8, <1>9, SeqEqual
<1> QED
  BY <1>7, <1>10 DEF s

LEMMA ScreenType ==
    ASSUME GateTypeInv, device.mode # "gone"
    PROVE  /\ Prompt[device.mode] \in Text /\ device.line \in Seq(Text)
           /\ Prompt[device.mode] \in Output
           /\ device.mode \in Asking \/ device.line = << >> => Screen = <<Prompt[device.mode]>>
           /\ device.mode \notin Asking => Screen = <<Prompt[device.mode]>> \o device.line
<1>1. device.mode \in DOMAIN Prompt /\ device.line \in Seq(Words)
  BY DEF GateTypeInv, DeviceRow
<1>2. Prompt[device.mode] \in Text /\ Prompt[device.mode] \in Output
  BY <1>1 DEF Prompt, Text, Prompts, Output
<1>3. device.line \in Seq(Text)
  BY <1>1, SeqMonotonic DEF Text
<1>4. <<Prompt[device.mode]>> \o << >> = <<Prompt[device.mode]>>
  BY <1>2, <1>3, ScreenProperties
<1> QED
  BY <1>2, <1>3, <1>4 DEF Screen

\* A step that writes anything but a key leaves the end of a line on the way.
LEMMA WritesOwe ==
    ASSUME GateTypeInv, GateTypeInv', Writes, ~WritesKey
    PROVE  Owed'
<1>1. up' # << >> /\ LineEnds(up'[Len(up')])
  BY WritesClean
<1>2. Len(up') \in 1 .. Len(up')
  BY <1>1, EmptySeq, LenProperties DEF GateTypeInv
<1> QED
  BY <1>1, <1>2 DEF Owed, LineEnds

\* A key but the end of a line does to the device's line what its echo does to
\* the screen.
LEMMA EchoShows ==
    ASSUME GateTypeInv, NEW x \in Sent, Takes(x), ReadsWord(x) \/ ReadsDel(x),
           Shows(gate.devLine, down, Screen)
    PROVE  Shows(gate.devLine, down', Screen')
<1> DEFINE p == Prompt[device.mode]
<1>1. device.mode # "gone" /\ device \in DeviceRow /\ down \in Seq(Output)
  BY DEF Takes, GateTypeInv
<1>2. /\ p \in Text /\ device.line \in Seq(Text)
      /\ device.mode \in Asking \/ device.line = << >> => Screen = <<p>>
      /\ device.mode \notin Asking => Screen = <<p>> \o device.line
  BY <1>1, ScreenType
<1>3. /\ <<p>> \o device.line # << >>
      /\ \A w \in Text : <<p>> \o Append(device.line, w) = Append(<<p>> \o device.line, w)
      /\ device.line # << >> => <<p>> \o Front(device.line) = Front(<<p>> \o device.line)
  <2> HIDE DEF p
  <2>1. p \in Text /\ device.line \in Seq(Text)
    BY <1>2
  <2> DEFINE l == device.line
  <2> HIDE DEF l
  <2>2. p \in Text /\ l \in Seq(Text)
    BY <2>1 DEF l
  <2>3. /\ <<p>> \o l # << >>
        /\ \A w \in Text : <<p>> \o Append(l, w) = Append(<<p>> \o l, w)
        /\ l # << >> => <<p>> \o Front(l) = Front(<<p>> \o l)
    <3>1. <<p>> \o l # << >>
      BY <2>2, ScreenProperties
    <3>2. ASSUME NEW w \in Text PROVE <<p>> \o Append(l, w) = Append(<<p>> \o l, w)
      BY <2>2, ScreenProperties
    <3>3. ASSUME l # << >> PROVE <<p>> \o Front(l) = Front(<<p>> \o l)
      BY <2>2, <3>3, ScreenProperties
    <3> QED
      BY <3>1, <3>2, <3>3
  <2> QED
    BY <2>3 DEF l
<1>4. device'.mode = device.mode
  BY <1>1 DEF ReadsWord, ReadsDel, DeviceRow
<1>5. Screen' = <<p>> \o (IF device.mode \in Asking THEN << >> ELSE device'.line)
  BY <1>4 DEF Screen
<1>6. Screen = <<p>> \o (IF device.mode \in Asking THEN << >> ELSE device.line)
  BY DEF Screen
<1>7. CASE device.mode \in Asking
  BY <1>5, <1>6, <1>7 DEF ReadsWord, ReadsDel
<1>8. CASE device.mode \notin Asking /\ ReadsWord(x)
  <2>1. x.key \in Text /\ x.key \in Output /\ x.key \notin {"NL", "BS"}
    BY <1>8, WordsAreWords DEF ReadsWord, Text, Output
  <2>2. device'.line = Append(device.line, x.key) /\ down' = Append(down, x.key)
    BY <1>1, <1>8 DEF ReadsWord, DeviceRow
  <2>3. Screen' = Append(Screen, x.key)
    BY <1>2, <1>3, <1>5, <1>8, <2>1, <2>2
  <2>4. Show(Screen, x.key) = Append(Screen, x.key)
    BY <2>1 DEF Show
  <2> HIDE DEF p
  <2> QED
    BY <1>1, <2>1, <2>2, <2>3, <2>4, ShowsAppend
<1>9. CASE device.mode \notin Asking /\ ReadsDel(x) /\ device.line = << >>
  <2>1. device'.line = device.line /\ down' = down
    BY <1>1, <1>9 DEF ReadsDel, DeviceRow
  <2> QED
    BY <1>5, <1>6, <2>1
<1>10. CASE device.mode \notin Asking /\ ReadsDel(x) /\ device.line # << >>
  <2>1. device'.line = Front(device.line) /\ down' = Append(down, "BS")
    BY <1>1, <1>10 DEF ReadsDel, DeviceRow
  <2>2. Screen' = Front(Screen)
    BY <1>2, <1>3, <1>5, <1>10, <2>1
  <2>3. Show(Screen, "BS") = Front(Screen)
    BY <1>2, <1>3, <1>10 DEF Show
  <2>4. "BS" \in Output
    BY DEF Output
  <2> HIDE DEF p
  <2> QED
    BY <1>1, <2>1, <2>2, <2>3, <2>4, ShowsAppend
<1> QED
  BY <1>7, <1>8, <1>9, <1>10

LEMMA SyncKeeps ==
    ASSUME GateTypeInv, GateTypeInv', SyncInv, [Next]_vars
    PROVE  SyncInv'
<1> SUFFICES ASSUME Live', ~Owed' PROVE Shows(gate.devLine, down, Screen)'
  BY DEF SyncInv
<1>0. Live
  BY NetStays DEF Live
<1>n. up \in Seq(Sent) /\ Len(up) \in Nat /\ down \in Seq(Output)
  BY LenProperties DEF GateTypeInv
<1>s. ASSUME UNCHANGED <<device>>, gate'.devLine = gate.devLine, down' = down, ~Owed
      PROVE  Shows(gate.devLine, down, Screen)'
  <2>1. Shows(gate.devLine, down, Screen) /\ Screen' = Screen
    BY <1>0, <1>s DEF SyncInv, Screen
  <2> QED
    BY <1>s, <2>1 DEF Shows
<1>1. CASE DeviceReads
  <2>1. PICK x \in Sent : Takes(x) /\ (ReadsWord(x) \/ ReadsDel(x) \/ ReadsEnd(x))
    BY <1>1, DeviceDoes
  <2>2. /\ gate' = gate /\ input' = input /\ x = up[1] /\ Len(up') = Len(up) - 1
        /\ \A i \in 1 .. Len(up') : up'[i] = up[i + 1]
    BY <2>1 DEF Takes
  <2>3. CASE ReadsEnd(x)
    <3>0. PICK m, tries : Enters(m, tries)
      BY <2>3 DEF ReadsEnd
    <3>1. Enters(m, tries) /\ device'.mode = m
      BY <3>0 DEF Enters, ToMode
    <3>2. m \in DOMAIN Prompt /\ m # "gone" /\ ToMode(m, tries)
      BY <3>1 DEF Enters, Live
    <3>3. device'.line = << >> /\ down' = Append(Append(down, "NL"), Prompt[m])
      BY <3>2, ToModeSays
    <3>4. Prompt[m] \in Text
      BY <3>2 DEF Prompt, Text, Prompts
    <3>5. Screen' = <<Prompt[m]>> \o << >> /\ <<Prompt[m]>> \o << >> = <<Prompt[m]>>
      <4>1. Screen' = <<Prompt[m]>> \o << >>
        BY <3>1, <3>3 DEF Screen
      <4>2. << >> \in Seq(Text)
        BY EmptySeq
      <4> QED
        BY <3>4, <4>1, <4>2, ScreenProperties
    <3>6. PICK shown : Shows(gate.devLine, down, shown)
      BY ShowsSome
    <3>7. Shows(gate.devLine, Append(Append(down, "NL"), Prompt[m]), <<Prompt[m]>>)
      BY <1>n, <3>4, <3>6, ShowsPrompt
    <3>8. Shows(gate'.devLine, down', Screen')
      BY <2>2, <3>3, <3>5, <3>7
    <3> QED
      BY <3>8 DEF Shows
  <2>4. CASE ReadsWord(x) \/ ReadsDel(x)
    <3>1. ~LineEnds(x)
      BY <2>4, WordsAreWords DEF LineEnds, ReadsWord, ReadsDel
    <3>2. ASSUME NEW i \in 1 .. Len(up) PROVE ~LineEnds(up[i])
      <4>1. CASE i = 1
        BY <2>2, <3>1, <4>1
      <4>2. CASE i # 1
        <5>1. i - 1 \in 1 .. Len(up') /\ (i - 1) + 1 = i
          BY <1>n, <2>2, <4>2
        <5>2. up'[i - 1] = up[i]
          BY <2>2, <5>1
        <5>3. ~LineEnds(up'[i - 1])
          BY <5>1 DEF Owed, LineEnds
        <5> QED
          BY <5>2, <5>3
      <4> QED
        BY <4>1, <4>2
    <3>3. ~Owed
      BY <2>2, <3>2 DEF Owed, Ending, Entering
    <3>4. Shows(gate.devLine, down', Screen')
      BY <1>0, <2>1, <2>4, <3>3, EchoShows DEF SyncInv
    <3>5. Shows(gate'.devLine, down', Screen')
      BY <2>2, <3>4
    <3> QED
      BY <3>5 DEF Shows
  <2> QED
    BY <2>1, <2>3, <2>4
<1>2. CASE NoteOutput
  <2>1. UNCHANGED <<input, up, device>>
    BY <1>2 DEF NoteOutput
  <2>2. ~Owed /\ Screen' = Screen
    BY <2>1 DEF Owed, LineEnds, Screen, Ending, Entering
  <2>3. Shows(gate'.devLine, down', Screen)
    BY <1>0, <1>2, <2>2, NoteShows DEF SyncInv
  <2> QED
    BY <2>2, <2>3 DEF Shows
<1>3. CASE Talks
  <2>1. UNCHANGED <<device, down>> /\ (Thinks \/ Writes)
    BY <1>0, <1>3 DEF Talks, Live
  <2>2. input'.pc \notin Ending
    BY DEF Owed, Ending, Entering
  <2>3. gate'.devLine = gate.devLine
    BY <1>3, <2>2 DEF Talks, Ending, Entering
  <2>4. ~Owed
    <3>1. CASE Thinks
      BY <2>2, <3>1 DEF Thinks, Owed, LineEnds
    <3>2. CASE WritesKey
      <4>1. PICK k \in Keys : up' = Append(up, Typed(k))
        BY <3>2 DEF WritesKey
      <4>2. Typed(k) \in Sent
        BY SentTypes
      <4>3. /\ Len(up') = Len(up) + 1 /\ \A i \in 1 .. Len(up) : up'[i] = up[i]
        BY <1>n, <4>1, <4>2, AppendProperties
      <4>4. \A i \in 1 .. Len(up) : ~LineEnds(up'[i])
        <5>1. \A i \in 1 .. Len(up) : i \in 1 .. Len(up')
          BY <1>n, <4>3
        <5> QED
          BY <5>1 DEF Owed, LineEnds
      <4>5. input.pc = "key"
        BY <3>2 DEF WritesKey
      <4> QED
        BY <4>3, <4>4, <4>5 DEF Owed, Ending, Entering
    <3>3. CASE Writes /\ ~WritesKey
      BY <3>3, WritesOwe
    <3> QED
      BY <2>1, <3>1, <3>2, <3>3
  <2> QED
    BY <1>s, <2>1, <2>3, <2>4
<1>4. CASE Closes
  BY <1>4 DEF Closes, Live
<1>5. CASE UNCHANGED vars
  <2>1. UNCHANGED <<device, gate, down, input, up>>
    BY <1>5 DEF vars
  <2>2. ~Owed
    BY <2>1 DEF Owed, LineEnds, Ending, Entering
  <2> QED
    BY <1>s, <2>1, <2>2
<1> QED
  BY <1>1, <1>2, <1>3, <1>4, <1>5, GateSteps

\* The line that is judged is the device's own line once all of it is shown.
LEMMA JudgedIsShown ==
    ASSUME GateTypeInv, SyncInv, Live, input.pc = "line", Quiet,
           CurrentCommand = << >> \/ CommandAllowed(CurrentCommand, Allow, Deny)
    PROVE  Harmless
<1> SUFFICES ASSUME device.mode \notin Asking, device.line # << >>
             PROVE  CommandAllowed(device.line, Allow, Deny)
  BY DEF Harmless
<1>1. ~Owed
  BY EmptySeq DEF Owed, Quiet, Ending, Entering
<1>2. Shows(gate.devLine, down, Screen) /\ down = << >>
  BY <1>1 DEF SyncInv, Quiet
<1>3. gate.devLine = Screen
  BY <1>2, EmptySeq DEF Shows
<1>4. /\ Prompt[device.mode] \in {">", "#", "$"} /\ device.line \in Seq(Words)
      /\ Screen = <<Prompt[device.mode]>> \o device.line
  BY DEF GateTypeInv, DeviceRow, Live, Asking, Prompt, Screen
<1>5. AfterPrompt(gate.devLine) = device.line
  BY <1>3, <1>4, AfterPromptOf
<1>6. CurrentCommand = device.line
  BY <1>5 DEF CurrentCommand
<1> QED
  BY <1>6

LEMMA JudgedKeeps ==
    ASSUME GateTypeInv, SyncInv, JudgedInv, [Next]_vars
    PROVE  JudgedInv'
<1> DEFINE Judged == /\ Seen(input) /\ input.pc \in Judging => Quiet /\ Harmless
                     /\ \A i \in 1 .. Len(up) : Seen(up[i]) => i = 1 /\ Harmless
<1> SUFFICES ASSUME Live' PROVE Judged'
  BY DEF JudgedInv
<1>0. Live
  BY NetStays DEF Live
<1>j. Judged
  BY <1>0 DEF JudgedInv
<1>n. up \in Seq(Sent) /\ Len(up) \in Nat
  BY LenProperties DEF GateTypeInv
<1>h. device' = device => (Harmless' <=> Harmless)
  BY DEF Harmless
<1> HIDE DEF Judged
<1>1. CASE DeviceReads
  <2>1. PICK x \in Sent : Takes(x)
    BY <1>1, DeviceDoes
  <2>2. /\ input' = input /\ up # << >> /\ Len(up') = Len(up) - 1
        /\ \A i \in 1 .. Len(up') : up'[i] = up[i + 1]
    BY <2>1 DEF Takes
  <2>3. ~(Seen(input') /\ input'.pc \in Judging)
    BY <1>j, <2>2 DEF Judged, Quiet
  <2>4. ASSUME NEW i \in 1 .. Len(up') PROVE ~Seen(up'[i])
    <3>1. i + 1 \in 1 .. Len(up) /\ i + 1 # 1 /\ up'[i] = up[i + 1]
      BY <1>n, <2>2
    <3> QED
      BY <1>j, <3>1 DEF Judged
  <2> QED
    BY <2>3, <2>4 DEF Judged, Seen
<1>2. CASE NoteOutput
  <2>1. UNCHANGED <<input, up, device>>
    BY <1>2 DEF NoteOutput
  <2>2. down # << >>
    BY <1>2, NoteOutputReads, EmptySeq
  <2>3. ~(Seen(input') /\ input'.pc \in Judging)
    BY <1>j, <2>1, <2>2 DEF Judged, Quiet
  <2> QED
    BY <1>h, <1>j, <2>1, <2>3 DEF Judged, Seen
<1>3. CASE Talks
  <2>1. /\ UNCHANGED <<device, down>> /\ (output.pc = "read" => output'.pc = "read")
        /\ Thinks \/ Writes
    BY <1>0, <1>3 DEF Talks, Live
  <2>2. CASE Thinks
    <3>1. up' = up /\ (Quiet => Quiet')
      BY <2>1, <2>2 DEF Thinks, Quiet
    <3>2. Seen(input') /\ input'.pc \in Judging => Quiet /\ Harmless
      BY <1>0, <1>j, <2>2, JudgedIsShown DEF Thinks, Judged
    <3> QED
      BY <1>h, <1>j, <2>1, <3>1, <3>2 DEF Judged, Seen
  <2>3. ASSUME NEW item \in Sent, up' = Append(up, item), input'.pc = "read",
               Seen(item) => up = << >> /\ Harmless
        PROVE  Judged'
    <3>1. /\ Len(up') = Len(up) + 1 /\ \A i \in 1 .. Len(up) : up'[i] = up[i]
          /\ up'[Len(up) + 1] = item
      BY <1>n, <2>3, AppendProperties
    <3>2. ASSUME NEW i \in 1 .. Len(up'), Seen(up'[i]) PROVE i = 1 /\ Harmless
      <4>1. CASE i \in 1 .. Len(up)
        BY <1>j, <3>1, <3>2, <4>1 DEF Judged
      <4>2. CASE i = Len(up) + 1
        BY <2>3, <3>1, <3>2, <4>2, EmptySeq
      <4> QED
        BY <1>n, <3>1, <4>1, <4>2
    <3>3. input'.pc \notin Judging
      BY <2>3 DEF Judging, Entering
    <3> QED
      BY <1>h, <2>1, <3>2, <3>3 DEF Judged, Seen
  <2>4. ASSUME NEW a \in Sent, NEW b \in Sent, up' = up \o <<a, b>>, ~Seen(a), ~Seen(b),
               ~(Seen(input') /\ input'.pc \in Judging)
        PROVE  Judged'
    <3>1. /\ Len(up') = Len(up) + 2 /\ \A i \in 1 .. Len(up) : up'[i] = up[i]
          /\ up'[Len(up) + 1] = a /\ up'[Len(up) + 2] = b
      BY <1>n, <2>4, TwoMore
    <3>2. ASSUME NEW i \in 1 .. Len(up'), Seen(up'[i]) PROVE i = 1 /\ Harmless
      <4>1. i \in 1 .. Len(up)
        <5>1. i \in 1 .. Len(up) \/ i = Len(up) + 1 \/ i = Len(up) + 2
          BY <1>n, <3>1
        <5> QED
          BY <2>4, <3>1, <3>2, <5>1
      <4> QED
        BY <1>j, <3>1, <3>2, <4>1 DEF Judged
    <3> QED
      BY <1>h, <2>1, <2>4, <3>2 DEF Judged, Seen
  <2>5. \A k : ~Seen(Typed(k))
    BY DEF Seen, Typed
  <2>6. CASE WritesKey
    <3>1. PICK k \in Keys : up' = Append(up, Typed(k)) /\ input'.pc = "read"
      BY <2>6 DEF WritesKey
    <3>2. Typed(k) \in Sent
      BY SentTypes
    <3> QED
      BY <2>3, <2>5, <3>1, <3>2
  <2>7. CASE WritesCancel
    <3>1. Typed("^C") \in Sent
      BY SentTypes
    <3> QED
      BY <2>3, <2>5, <2>7, <3>1 DEF WritesCancel
  <2>8. CASE WritesEnter
    <3>1. Enter(input.by, input.settled) \in Sent
      BY SentTypes DEF GateTypeInv, InputRow
    <3>2. Seen(Enter(input.by, input.settled)) => Seen(input)
      BY DEF Seen, Enter
    <3>3. Seen(input) => up = << >> /\ Harmless
      BY <1>j, <2>8 DEF WritesEnter, Judged, Judging, Quiet
    <3> QED
      BY <2>3, <2>8, <3>1, <3>2, <3>3 DEF WritesEnter
  <2>9. CASE WritesAuto
    <3>1. /\ Typed(Secret) \in Sent /\ Enter("auto", input.pc \notin Entering) \in Sent
          /\ ~Seen(Enter("auto", input.pc \notin Entering))
      <4>1. "auto" \in Authors /\ (input.pc \notin Entering) \in BOOLEAN
        BY DEF Authors
      <4>2. ~Seen(Enter("auto", input.pc \notin Entering))
        BY DEF Seen, Enter
      <4> QED
        BY <4>1, <4>2, SentTypes
    <3>2. ~(Seen(input') /\ input'.pc \in Judging)
      BY <1>j, <2>9 DEF WritesAuto, Judged, Quiet
    <3> QED
      BY <2>4, <2>5, <2>9, <3>1, <3>2 DEF WritesAuto
  <2>10. CASE WritesForced
    <3>1. /\ Typed(Secret) \in Sent /\ Enter("forced", TRUE) \in Sent
          /\ ~Seen(Enter("forced", TRUE))
      BY SentTypes DEF Seen, Enter, Authors
    <3>2. input'.pc \notin Judging
      BY <2>10 DEF WritesForced, Judging, Entering
    <3> QED
      BY <2>4, <2>5, <2>10, <3>1, <3>2 DEF WritesForced
  <2> QED
    BY <2>1, <2>2, <2>6, <2>7, <2>8, <2>9, <2>10 DEF Writes
<1>4. CASE Closes
  BY <1>4 DEF Closes, Live
<1>5. CASE UNCHANGED vars
  <2>1. UNCHANGED <<input, up, down, output, device>>
    BY <1>5 DEF vars
  <2> QED
    BY <1>h, <1>j, <2>1 DEF Judged, Seen, Quiet
<1> QED
  BY <1>1, <1>2, <1>3, <1>4, <1>5, GateSteps

LEMMA RefusedKeeps ==
    ASSUME GateTypeInv, ClosedInv, JudgedInv, RefusedNeverRuns, [Next]_vars
    PROVE  RefusedNeverRuns'
<1>1. CASE DeviceReads
  <2>1. PICK x \in Sent : Takes(x) /\ (ReadsWord(x) \/ ReadsDel(x) \/ ReadsEnd(x))
    BY <1>1, DeviceDoes
  <2>2. CASE UNCHANGED ran
    BY <2>2 DEF RefusedNeverRuns
  <2>3. CASE /\ ran' = [line |-> device.line, by |-> x.by, settled |-> x.settled]
             /\ device.mode \notin Asking
    <3>1. up # << >> /\ x = up[1] /\ device.mode # "gone"
      BY <2>1 DEF Takes
    <3>2. 1 \in 1 .. Len(up) /\ Live
      BY <3>1, EmptySeq, LenProperties DEF GateTypeInv, ClosedInv, Live
    <3>3. x.by = "judged" /\ x.settled =>
             device.line = << >> \/ CommandAllowed(device.line, Allow, Deny)
      BY <2>3, <3>1, <3>2 DEF JudgedInv, Seen, Harmless
    <3> QED
      BY <2>3, <3>3 DEF RefusedNeverRuns
  <2> QED
    BY <2>1, <2>2, <2>3 DEF ReadsWord, ReadsDel, ReadsEnd
<1>2. CASE NoteOutput
  BY <1>2 DEF NoteOutput, RefusedNeverRuns
<1> QED
  BY <1>1, <1>2, GateSteps DEF Talks, Closes, vars, RefusedNeverRuns

LEMMA JudgedInit ==
    ASSUME Init
    PROVE  SyncInv /\ JudgedInv /\ RefusedNeverRuns
<1>1. /\ gate.devLine = << >> /\ up = << >> /\ input.pc = "read" /\ ran.settled = FALSE
  BY DEF Init, Reading
<1>2. PICK m \in {"user", "exec", "shell"} :
         device.mode = m /\ device.line = << >> /\ down = <<Prompt[m]>>
  BY DEF Init
<1>3. Prompt[m] \in Text /\ Prompt[m] \notin {"NL", "BS"}
  BY <1>2 DEF Prompt, Text, Prompts
<1>4. Screen = <<Prompt[m]>>
  <2>1. << >> \in Seq(Text)
    BY EmptySeq
  <2> QED
    BY <1>2, <1>3, <2>1, ScreenProperties DEF Screen
<1>5. Shows(<< >>, <<Prompt[m]>>, <<Prompt[m]>>)
  <2> DEFINE F == [i \in 0 .. 1 |-> IF i = 0 THEN << >> ELSE <<Prompt[m]>>]
  <2>1. F[0] = << >> /\ F[1] = <<Prompt[m]>>
    OBVIOUS
  <2>2. Show(<< >>, Prompt[m]) = <<Prompt[m]>>
    BY <1>3 DEF Show
  <2> HIDE DEF F
  <2>3. \A i \in 1 .. 1 : F[i] = Show(F[i - 1], <<Prompt[m]>>[i])
    BY <2>1, <2>2
  <2>4. Len(<<Prompt[m]>>) = 1
    OBVIOUS
  <2> QED
    BY <2>1, <2>3, <2>4 DEF Shows
<1>6. SyncInv
  BY <1>1, <1>2, <1>4, <1>5 DEF SyncInv
<1>7. JudgedInv
  BY <1>1 DEF JudgedInv, Judging, Entering
<1> QED
  BY <1>1, <1>6, <1>7 DEF RefusedNeverRuns

\* RefusedNeverRuns: a line judged when the device had shown all of it does not
\* run unless the session's lists allow it, on any device.
THEOREM RefusedLinesStay == Spec => []RefusedNeverRuns
<1> DEFINE Inv == /\ GateTypeInv /\ ClosedInv /\ SyncInv /\ JudgedInv
                  /\ RefusedNeverRuns
<1>1. Init => Inv
  BY InitType, NetInit, JudgedInit DEF NetInv
<1>2. Inv /\ [Next]_vars => Inv'
  BY NextType, ClosedKeeps, SyncKeeps, JudgedKeeps, RefusedKeeps
<1> QED
  BY <1>1, <1>2, PTL DEF Spec
=============================================================================
