---- MODULE LogTail_proofs ----
(***************************************************************************)
(* Proofs about LogTail for any inodes, reused or not, and any numbers of  *)
(* lines, renames and truncations: types, the order in which lines are     *)
(* recorded, and that no line of a file is skipped.                        *)
(***************************************************************************)
EXTENDS LogTail, SequenceTheorems, TLAPS

----------------------------------------------------------------------------
(* Lines that end in a file, or in the buffer, behind its first n parts.   *)

Ends(s, n) == {s[m].line : m \in {m \in 1..Len(s) : m > n /\ s[m].nl}}
Before(A, B) == \A a \in A, b \in B : a < b
Increasing(s) == \A i, j \in 1..Len(s) : i < j => s[i] < s[j]
Ascending(s) ==
    \A i, j \in 1..Len(s) : i < j /\ s[i].nl /\ s[j].nl => s[i].line < s[j].line

LEMMA PartsTyped ==
    /\ \A p \in Parts : p.line \in 1..MaxLines /\ p.nl \in BOOLEAN
    /\ MaxLines \in Nat
    /\ \A l \in 1..MaxLines : First(l) \in Parts /\ Rest(l) \in Parts
  BY BoundsAssumption DEF Parts, First, Rest

LEMMA SeqTyped ==
    ASSUME NEW s \in Seq(Parts)
    PROVE  /\ Len(s) \in Nat /\ DOMAIN s = 1..Len(s)
           /\ \A i \in 1..Len(s) : s[i] \in Parts /\ s[i].line \in 1..MaxLines
                                   /\ s[i].nl \in BOOLEAN
  <1>1. Len(s) \in Nat /\ DOMAIN s = 1..Len(s) BY LenProperties
  <1>2. \A i \in 1..Len(s) : s[i] \in Parts BY ElementOfSeq
  <1> QED BY <1>1, <1>2, PartsTyped

(* They are lines.                                                         *)
LEMMA EndsTyped ==
    ASSUME NEW s \in Seq(Parts), NEW n
    PROVE  Ends(s, n) \subseteq 1..MaxLines
  BY SeqTyped DEF Ends

LEMMA EndsOfEmpty == Len(<<>>) = 0 /\ Ascending(<<>>) /\ \A n : Ends(<<>>, n) = {}
  BY DEF Ends, Ascending

(* Behind more parts there is no more than behind fewer.                   *)
LEMMA EndsShrink ==
    ASSUME NEW s \in Seq(Parts), NEW n \in Nat, NEW m \in Nat, n <= m
    PROVE  Ends(s, m) \subseteq Ends(s, n)
  <1>1. Len(s) \in Nat BY SeqTyped
  <1> QED BY <1>1 DEF Ends

(* Appending a part adds its line, if the part ends one.                   *)
LEMMA AppendTyped ==
    ASSUME NEW s \in Seq(Parts), NEW p \in Parts
    PROVE  /\ Append(s, p) \in Seq(Parts) /\ Len(Append(s, p)) = Len(s) + 1
           /\ \A i \in 1..Len(s) : Append(s, p)[i] = s[i]
           /\ Append(s, p)[Len(s) + 1] = p
  BY AppendProperties

LEMMA AppendEnds ==
    ASSUME NEW s \in Seq(Parts), NEW p \in Parts, NEW n \in Nat
    PROVE  Ends(Append(s, p), n) \subseteq Ends(s, n) \cup (IF p.nl THEN {p.line} ELSE {})
  <1> DEFINE t == Append(s, p)
  <1>1. Len(s) \in Nat BY SeqTyped
  <1>2. t \in Seq(Parts) /\ Len(t) = Len(s) + 1 /\ t[Len(s) + 1] = p
        /\ \A i \in 1..Len(s) : t[i] = s[i]
    BY AppendTyped
  <1> HIDE DEF t
  <1>3. ASSUME NEW m \in 1..Len(t), m > n, t[m].nl
        PROVE  t[m].line \in Ends(s, n) \cup (IF p.nl THEN {p.line} ELSE {})
    <2>1. CASE m = Len(s) + 1 BY <1>2, <1>3, <2>1
    <2>2. CASE m # Len(s) + 1
      <3>1. m \in 1..Len(s) BY <1>1, <1>2, <2>2
      <3> QED BY <1>2, <1>3, <3>1 DEF Ends
    <2> QED BY <2>1, <2>2
  <1>4. Ends(t, n) \subseteq Ends(s, n) \cup (IF p.nl THEN {p.line} ELSE {})
    BY <1>3 DEF Ends
  <1> QED BY <1>4 DEF t

LEMMA AppendAscends ==
    ASSUME NEW s \in Seq(Parts), NEW p \in Parts, Ascending(s),
           p.nl => Before(Ends(s, 0), {p.line})
    PROVE  Ascending(Append(s, p))
  <1> DEFINE t == Append(s, p)
  <1>1. Len(s) \in Nat BY SeqTyped
  <1>2. t \in Seq(Parts) /\ Len(t) = Len(s) + 1 /\ t[Len(s) + 1] = p
        /\ \A i \in 1..Len(s) : t[i] = s[i]
    BY AppendTyped
  <1> HIDE DEF t
  <1>3. ASSUME NEW i \in 1..Len(t), NEW j \in 1..Len(t), i < j, t[i].nl, t[j].nl
        PROVE  t[i].line < t[j].line
    <2>1. i \in 1..Len(s) BY <1>1, <1>2, <1>3
    <2>2. CASE j = Len(s) + 1
      <3>1. s[i].line \in Ends(s, 0) BY <1>2, <1>3, <2>1 DEF Ends
      <3> QED BY <1>2, <1>3, <2>1, <2>2, <3>1 DEF Before
    <2>3. CASE j # Len(s) + 1
      <3>1. j \in 1..Len(s) BY <1>1, <1>2, <2>3
      <3> QED BY <1>2, <1>3, <2>1, <3>1 DEF Ascending
    <2> QED BY <2>2, <2>3
  <1>4. Ascending(t) BY <1>3 DEF Ascending
  <1> QED BY <1>4 DEF t

(* In a file whose lines ascend, what stands behind a line is larger.      *)
LEMMA AscendingAhead ==
    ASSUME NEW s \in Seq(Parts), Ascending(s), NEW k \in 1..Len(s), s[k].nl
    PROVE  Before({s[k].line}, Ends(s, k))
  BY SeqTyped DEF Ascending, Before, Ends

----------------------------------------------------------------------------
(* Types, and which file a name, Xray and the parser have: none that was   *)
(* never created, and Xray writes to no other file than the one at the     *)
(* path once that one holds a line.                                        *)

Linked ==
    /\ file = 0 <=> pc = "waiting"
    /\ pc = "reading" => LastInode = file
    /\ pc # "reading" => delta = <<>>
    /\ {path, xrayFile, file, LastInode} \subseteq used \cup {0}
    /\ LastInode = 0 => LastPos = 0
    /\ halfWritten => xrayFile # 0 /\ line <= MaxLines
    /\ path # 0 /\ xrayFile \notin {0, path} => content[path] = <<>>

Typed == TypeOK /\ Linked

parserVars == <<LastPos, LastInode, pc, file, newPos, buffer, delta, recorded, regrown>>

LEMMA ZeroNotInode == 0 \notin Inodes
  BY InodesAssumption

LEMMA TypedStutters == ASSUME Typed, UNCHANGED vars PROVE Typed'
  BY DEF Typed, TypeOK, Linked, vars, fsVars, xrayVars, passVars

(* Xray writes.                                                            *)
LEMMA WriteTyped == ASSUME Typed, XrayWritesHalf \/ XrayWritesRest PROVE Typed'
  <1>1. PICK p \in Parts :
        /\ content' = [content EXCEPT ![xrayFile] = Append(content[xrayFile], p)]
        /\ xrayFile # 0
        /\ line' \in 1..MaxLines + 1 /\ halfWritten' \in BOOLEAN
        /\ halfWritten' => line' <= MaxLines
    <2>1. line \in 1..MaxLines + 1 /\ MaxLines \in Nat BY PartsTyped DEF Typed, TypeOK
    <2>2. CASE XrayWritesHalf
      <3>1. line \in 1..MaxLines BY <2>1, <2>2 DEF XrayWritesHalf
      <3>2. First(line) \in Parts BY <3>1, PartsTyped
      <3> QED BY <2>1, <2>2, <3>1, <3>2 DEF XrayWritesHalf
    <2>3. CASE XrayWritesRest
      <3>1. line \in 1..MaxLines /\ xrayFile # 0
        BY <2>1, <2>3 DEF XrayWritesRest, Typed, Linked
      <3>2. Rest(line) \in Parts BY <3>1, PartsTyped
      <3>3. line + 1 \in 1..MaxLines + 1 BY <2>1, <3>1
      <3>4. halfWritten' = FALSE /\ line' = line + 1
            /\ content' = [content EXCEPT ![xrayFile] = Append(content[xrayFile], Rest(line))]
        BY <2>3 DEF XrayWritesRest
      <3> QED BY <3>1, <3>2, <3>3, <3>4
    <2> QED BY <2>2, <2>3
  <1>2. UNCHANGED <<path, used, rotations, truncations, xrayFile, parserVars, cut>>
    BY DEF XrayWritesHalf, XrayWritesRest, parserVars, passVars
  <1>3. xrayFile \in Inodes /\ content[xrayFile] \in Seq(Parts)
    BY <1>1 DEF Typed, TypeOK
  <1>4. content' \in [Inodes -> Seq(Parts)]
    BY <1>1, <1>3, AppendTyped DEF Typed, TypeOK
  <1>7. TypeOK'
    BY <1>1, <1>2, <1>4 DEF Typed, TypeOK, parserVars
  <1>8. path # 0 /\ xrayFile \notin {0, path} => content'[path] = <<>>
    BY <1>1 DEF Typed, TypeOK, Linked
  <1>9. Linked'
    BY <1>1, <1>2, <1>8 DEF Typed, Linked, parserVars
  <1> QED BY <1>7, <1>9 DEF Typed

(* A file is created, or emptied.                                          *)
LEMMA EmptyTyped ==
    ASSUME Typed, Truncate \/ \E i \in Inodes : Create(i)
    PROVE  Typed'
  <1>1. PICK i \in Inodes :
        /\ content' = [content EXCEPT ![i] = <<>>] /\ path' = i
        /\ used' = used \cup {i} /\ cut' \subseteq cut \cup {i}
        /\ truncations' = IF Truncate THEN truncations + 1 ELSE truncations
        /\ Truncate => truncations < MaxTruncations
        /\ UNCHANGED <<rotations, xrayVars, parserVars>>
    <2>1. CASE Truncate
      BY <2>1 DEF Truncate, Typed, TypeOK, Linked, parserVars, passVars
    <2>2. CASE ~Truncate
      BY <2>2 DEF Create, parserVars, passVars
    <2> QED BY <2>1, <2>2
  <1>2. <<>> \in Seq(Parts) OBVIOUS
  <1>3. content' \in [Inodes -> Seq(Parts)] /\ content'[i] = <<>>
    BY <1>1, <1>2 DEF Typed, TypeOK
  <1>4. truncations' \in 0..MaxTruncations
    BY <1>1, BoundsAssumption DEF Typed, TypeOK
  <1>5. UNCHANGED <<xrayFile, line, halfWritten, LastPos, LastInode, pc, file, newPos, buffer,
                    delta, recorded, regrown>>
    BY <1>1 DEF xrayVars, parserVars
  <1>6. TypeOK' BY <1>1, <1>3, <1>4, <1>5 DEF Typed, TypeOK
  <1>7. Linked' BY <1>1, <1>3, <1>5 DEF Typed, Linked
  <1> QED BY <1>6, <1>7 DEF Typed

(* The log is renamed, and Xray stops or opens it again.                   *)
LEMMA MoveTyped == ASSUME Typed, Rename \/ XrayStops \/ XrayOpens PROVE Typed'
  <1>1. CASE Rename
    BY <1>1, BoundsAssumption DEF Rename, Typed, TypeOK, Linked, passVars, xrayVars
  <1>2. CASE XrayStops \/ XrayOpens
    BY SMTT(40), <1>2 DEF XrayStops, XrayOpens, Typed, TypeOK, Linked, fsVars, passVars
  <1> QED BY <1>1, <1>2

LEMMA EnvironmentTyped == ASSUME Typed, Environment PROVE Typed'
  BY WriteTyped, EmptyTyped, MoveTyped DEF Environment

(* A pass begins.                                                          *)
LEMMA BeginTyped == ASSUME Typed, Open \/ Stat PROVE Typed'
  <1>1. CASE Open
    BY <1>1 DEF Open, Typed, TypeOK, Linked, fsVars, xrayVars, passVars
  <1>2. CASE Stat
    <2>1. LastPos' \in Nat
      BY <1>2 DEF Stat, Adopt, StartPos, Typed, TypeOK
    <2>2. <<>> \in Seq(Parts) /\ <<>> \in Seq(1..MaxLines) OBVIOUS
    <2>3. /\ UNCHANGED <<content, path, used, rotations, truncations, xrayFile, line, halfWritten,
                         file, recorded>>
          /\ pc = "opened" /\ pc' = "reading" /\ LastInode' = file
          /\ newPos' = LastPos' /\ buffer' = <<>> /\ delta' = <<>>
          /\ cut' \subseteq cut
      BY <1>2 DEF Stat, Adopt, fsVars, xrayVars
    <2>4. regrown' \in BOOLEAN BY <1>2 DEF Stat, Adopt, Typed, TypeOK
    <2>5. TypeOK' BY <2>1, <2>2, <2>3, <2>4 DEF Typed, TypeOK
    <2>6. Linked' BY <2>3, ZeroNotInode DEF Typed, TypeOK, Linked
    <2> QED BY <2>5, <2>6 DEF Typed
  <1> QED BY <1>1, <1>2

(* A pass that fails before it reads.                                      *)
LEMMA FailTyped == ASSUME Typed, StatFails \/ SeekFails PROVE Typed'
  <1>1. /\ UNCHANGED <<content, path, used, rotations, truncations, xrayFile, line, halfWritten,
                       newPos, buffer, delta, recorded>>
        /\ pc = "opened" /\ pc' = "waiting" /\ file' = 0
    BY DEF StatFails, SeekFails, fsVars, xrayVars, passVars
  <1>2. delta = <<>> /\ file \in Inodes /\ file \in used \cup {0}
    BY <1>1 DEF Typed, TypeOK, Linked
  <1>3. CASE StatFails
    <2>1. UNCHANGED <<LastPos, LastInode, cut, regrown>> BY <1>3 DEF StatFails
    <2> QED BY <1>1, <1>2, <2>1 DEF Typed, TypeOK, Linked
  <1>4. CASE SeekFails
    <2>1. LastPos' \in Nat /\ LastInode' = file /\ cut' \subseteq cut /\ regrown' \in BOOLEAN
      BY <1>4 DEF SeekFails, Adopt, StartPos, Typed, TypeOK
    <2>2. TypeOK' BY <1>1, <1>2, <2>1 DEF Typed, TypeOK
    <2>3. Linked' BY <1>1, <1>2, <2>1, ZeroNotInode DEF Typed, Linked
    <2> QED BY <2>2, <2>3 DEF Typed
  <1> QED BY <1>3, <1>4

(* What a pass can fetch.                                                  *)
LEMMA UnreadTyped ==
    ASSUME Typed, pc = "reading"
    PROVE  LET f == content[file] n == newPos + Len(buffer)
           IN  /\ f \in Seq(Parts) /\ buffer \in Seq(Parts) /\ Len(f) \in Nat /\ n \in Nat
               /\ Unread \in Seq(Parts)
               /\ Len(Unread) = IF n < Len(f) THEN Len(f) - n ELSE 0
               /\ \A i \in 1..Len(Unread) : n + i \in 1..Len(f) /\ Unread[i] = f[n + i]
  <1> DEFINE f == content[file]
             n == newPos + Len(buffer)
  <1>1. f \in Seq(Parts) /\ buffer \in Seq(Parts) /\ newPos \in Nat
    BY DEF Typed, TypeOK, Linked
  <1>2. Len(f) \in Nat /\ n \in Nat
    BY <1>1, SeqTyped
  <1>3. Unread = SubSeq(f, n + 1, Len(f)) BY DEF Unread
  <1> HIDE DEF f, n
  <1>4. \A i \in n + 1 .. Len(f) : f[i] \in Parts
    BY <1>1, <1>2, SeqTyped
  <1>5. /\ Unread \in Seq(Parts)
        /\ Len(Unread) = IF n + 1 <= Len(f) THEN Len(f) - (n + 1) + 1 ELSE 0
        /\ \A i \in 1..Len(f) - (n + 1) + 1 : Unread[i] = f[n + 1 + i - 1]
    BY <1>2, <1>3, <1>4, SubSeqProperties
  <1>6. Len(Unread) = IF n < Len(f) THEN Len(f) - n ELSE 0
    BY <1>2, <1>5
  <1>7. \A i \in 1..Len(Unread) : n + i \in 1..Len(f) /\ Unread[i] = f[n + i]
    BY <1>2, <1>5, <1>6
  <1> QED BY <1>1, <1>2, <1>5, <1>6, <1>7 DEF f, n

(* What Fill puts behind the buffer.                                       *)
LEMMA FillEffect ==
    ASSUME Typed, Fill
    PROVE  LET f == content[file] n == newPos + Len(buffer)
           IN  /\ buffer' \in Seq(Parts)
               /\ Len(buffer') > Len(buffer) /\ newPos + Len(buffer') <= Len(f)
               /\ \A i \in 1..Len(buffer) : buffer'[i] = buffer[i] /\ ~buffer[i].nl
               /\ \A i \in 1..Len(buffer') : i > Len(buffer) =>
                     newPos + i \in 1..Len(f) /\ buffer'[i] = f[newPos + i]
  <1> DEFINE f == content[file]
             n == newPos + Len(buffer)
             b == buffer
  <1>1. pc = "reading" BY DEF Fill
  <1>2. PICK k \in 1..Len(Unread) : buffer' = b \o SubSeq(Unread, 1, k)
    BY DEF Fill
  <1>3. /\ f \in Seq(Parts) /\ b \in Seq(Parts) /\ Len(f) \in Nat /\ n \in Nat
        /\ Unread \in Seq(Parts)
        /\ Len(Unread) = IF n < Len(f) THEN Len(f) - n ELSE 0
        /\ \A i \in 1..Len(Unread) : n + i \in 1..Len(f) /\ Unread[i] = f[n + i]
    BY <1>1, UnreadTyped
  <1>4. newPos \in Nat /\ Len(b) \in Nat /\ DOMAIN b = 1..Len(b) /\ n = newPos + Len(b)
    BY <1>3, SeqTyped DEF Typed, TypeOK
  <1>5. \A i \in 1..Len(b) : ~b[i].nl BY <1>4 DEF Fill
  <1>11. Len(Unread) \in Nat BY <1>3
  <1> DEFINE u == Unread
             t == SubSeq(Unread, 1, k)
  <1>12. u \in Seq(Parts) /\ k \in 1..Len(u) /\ Len(u) \in Nat BY <1>3, <1>11
  <1>13. t = SubSeq(u, 1, k) OBVIOUS
  <1>14. /\ Len(u) = IF n < Len(f) THEN Len(f) - n ELSE 0
         /\ \A i \in 1..Len(u) : n + i \in 1..Len(f) /\ u[i] = f[n + i]
    BY <1>3
  <1>15. buffer' = b \o t BY <1>2
  <1> HIDE DEF f, n, b, u, t
  <1>6. \A i \in 1..k : u[i] \in Parts BY <1>12, SeqTyped
  <1>7. t \in Seq(Parts) /\ Len(t) = k /\ \A i \in 1..k : t[i] = u[i]
    BY <1>6, <1>12, <1>13, SubSeqProperties
  <1>8. /\ buffer' \in Seq(Parts) /\ Len(buffer') = Len(b) + k
        /\ \A i \in 1..Len(b) + k : buffer'[i] = IF i <= Len(b) THEN b[i] ELSE t[i - Len(b)]
    BY <1>3, <1>7, <1>15, ConcatProperties
  <1>9. newPos + Len(b) + k <= Len(f) BY <1>3, <1>4, <1>8, <1>12, <1>14
  <1>10. ASSUME NEW i \in 1..Len(b) + k, i > Len(b)
         PROVE  newPos + i \in 1..Len(f) /\ buffer'[i] = f[newPos + i]
    <2>1. i - Len(b) \in 1..k /\ i - Len(b) \in 1..Len(u) /\ n + (i - Len(b)) = newPos + i
      BY <1>4, <1>10, <1>12
    <2>2. buffer'[i] = t[i - Len(b)] BY <1>4, <1>8, <1>10
    <2> QED BY <1>7, <1>14, <2>1, <2>2
  <1>16. Len(buffer') > Len(b) /\ newPos + Len(buffer') <= Len(f)
    BY <1>4, <1>8, <1>9, <1>12
  <1>17. \A i \in 1..Len(b) : buffer'[i] = b[i] /\ ~b[i].nl
    BY <1>4, <1>5, <1>8, <1>12
  <1> QED BY <1>8, <1>10, <1>16, <1>17 DEF f, b

LEMMA FillTyped == ASSUME Typed, Fill PROVE Typed'
  <1>1. buffer' \in Seq(Parts) BY FillEffect
  <1>2. /\ pc = "reading"
        /\ UNCHANGED <<fsVars, xrayVars, LastPos, LastInode, pc, file, newPos, delta, recorded,
                       cut, regrown>>
    BY DEF Fill
  <1> QED BY <1>1, <1>2 DEF Typed, TypeOK, Linked, fsVars, xrayVars

(* The parts that ReadLine takes from the buffer, and the line it parses.  *)
LineRead(n) ==
    /\ buffer[n].nl /\ \A i \in 1..n-1 : ~buffer[i].nl
    /\ newPos' = newPos + n
    /\ delta' = IF n = 2 THEN delta \o <<buffer[n].line>> ELSE delta
    /\ buffer' \in Seq(Parts) /\ Len(buffer') = Len(buffer) - n
    /\ \A i \in 1..Len(buffer') : n + i \in 1..Len(buffer) /\ buffer'[i] = buffer[n + i]

LEMMA ReadLineEffect ==
    ASSUME Typed, ReadLine
    PROVE  \E n \in 1..Len(buffer) : LineRead(n)
  <1> DEFINE b == buffer
  <1>1. PICK n \in 1..Len(b) :
           /\ b[n].nl /\ \A i \in 1..n-1 : ~b[i].nl
           /\ newPos' = newPos + n
           /\ delta' = delta \o Parsed(SubSeq(b, 1, n))
           /\ buffer' = SubSeq(b, n + 1, Len(b))
    BY DEF ReadLine
  <1>2. b \in Seq(Parts) /\ Len(b) \in Nat /\ delta \in Seq(1..MaxLines)
        /\ \A i \in 1..Len(b) : b[i] \in Parts /\ b[i].line \in 1..MaxLines
    BY SeqTyped DEF Typed, TypeOK
  <1> DEFINE h == SubSeq(b, 1, n)
             t == SubSeq(b, n + 1, Len(b))
  <1> HIDE DEF b
  <1>3. n \in Int /\ n >= 1 /\ n <= Len(b) /\ n + 1 \in Int /\ Len(b) \in Int BY <1>2
  <1>4. \A i \in 1..n : b[i] \in Parts BY <1>2, <1>3
  <1>5. \A i \in n + 1..Len(b) : b[i] \in Parts BY <1>2, <1>3
  <1>6. h \in Seq(Parts) /\ Len(h) = n /\ \A i \in 1..n : h[i] = b[i]
    <2>1. /\ SubSeq(b, 1, n) \in Seq(Parts)
          /\ Len(SubSeq(b, 1, n)) = IF 1 <= n THEN n - 1 + 1 ELSE 0
          /\ \A i \in 1 .. n - 1 + 1 : SubSeq(b, 1, n)[i] = b[1 + i - 1]
      BY <1>3, <1>4, SubSeqProperties
    <2> QED BY <1>3, <2>1
  <1>7. t \in Seq(Parts) /\ Len(t) = Len(b) - n /\ \A i \in 1..Len(t) : t[i] = b[n + i]
    <2> DEFINE m == n + 1
    <2>1. m \in Int /\ \A i \in m..Len(b) : b[i] \in Parts BY <1>3, <1>5
    <2>2. t = SubSeq(b, m, Len(b)) /\ m = n + 1 OBVIOUS
    <2> HIDE DEF m
    <2>3. /\ t \in Seq(Parts)
          /\ Len(t) = IF m <= Len(b) THEN Len(b) - m + 1 ELSE 0
          /\ \A i \in 1 .. Len(b) - m + 1 : t[i] = b[m + i - 1]
      BY <1>3, <2>1, <2>2, SubSeqProperties
    <2> QED BY <1>3, <2>2, <2>3
  <1>8. delta' = IF n = 2 THEN delta \o <<b[n].line>> ELSE delta
    <2>1. CASE n = 2 BY <1>1, <1>6, <2>1 DEF Parsed
    <2>2. CASE n # 2
      <3>1. delta' = delta \o <<>> BY <1>1, <1>6, <2>2 DEF Parsed
      <3> QED BY <1>2, <2>2, <3>1, ConcatEmptySeq
    <2> QED BY <2>1, <2>2
  <1>9. buffer' = t BY <1>1
  <1> HIDE DEF h, t
  <1>10. \A i \in 1..Len(t) : n + i \in 1..Len(b) BY <1>3, <1>7
  <1> QED BY <1>1, <1>7, <1>8, <1>9, <1>10 DEF b, LineRead

LEMMA ReadLineTyped == ASSUME Typed, ReadLine PROVE Typed'
  <1>1. PICK n \in 1..Len(buffer) : LineRead(n) BY ReadLineEffect
  <1>2. /\ pc = "reading"
        /\ UNCHANGED <<fsVars, xrayVars, LastPos, LastInode, pc, file, recorded, cut, regrown>>
    BY DEF ReadLine
  <1>3. buffer \in Seq(Parts) /\ newPos \in Nat /\ Len(buffer) \in Nat
        /\ buffer[n].line \in 1..MaxLines /\ delta \in Seq(1..MaxLines)
    BY SeqTyped DEF Typed, TypeOK
  <1>4. <<buffer[n].line>> \in Seq(1..MaxLines) BY <1>3
  <1>5. delta' \in Seq(1..MaxLines) BY <1>1, <1>3, <1>4, ConcatProperties DEF LineRead
  <1>6. newPos' \in Nat /\ buffer' \in Seq(Parts) BY <1>1, <1>3 DEF LineRead
  <1>7. TypeOK'
    BY <1>2, <1>5, <1>6 DEF Typed, TypeOK, fsVars, xrayVars
  <1>8. Linked'
    BY <1>2 DEF Typed, Linked, fsVars, xrayVars
  <1> QED BY <1>7, <1>8 DEF Typed

(* The end of a pass.                                                      *)
LEMMA FinishTyped == ASSUME Typed, Finish PROVE Typed'
  <1>1. /\ pc = "reading" /\ pc' = "waiting" /\ file' = 0
        /\ recorded' = recorded \o delta /\ LastPos' = newPos
        /\ newPos' = 0 /\ buffer' = <<>> /\ delta' = <<>>
        /\ UNCHANGED <<content, path, used, rotations, truncations, xrayFile, line, halfWritten,
                       LastInode, cut, regrown>>
    BY DEF Finish, EndPos, fsVars, xrayVars
  <1>2. recorded' \in Seq(1..MaxLines)
    BY <1>1, ConcatProperties DEF Typed, TypeOK
  <1>3. <<>> \in Seq(Parts) /\ <<>> \in Seq(1..MaxLines) OBVIOUS
  <1>4. TypeOK' BY <1>1, <1>2, <1>3 DEF Typed, TypeOK
  <1>5. Linked' BY <1>1, ZeroNotInode DEF Typed, TypeOK, Linked
  <1> QED BY <1>4, <1>5 DEF Typed

LEMMA TypedKept == ASSUME Typed, [Next]_vars PROVE Typed'
  BY EnvironmentTyped, BeginTyped, FailTyped, FillTyped, ReadLineTyped, FinishTyped, TypedStutters
     DEF Next, Parser, EndOfFile, ReadError

LEMMA InitTyped == Init => Typed
  <1> SUFFICES ASSUME Init PROVE Typed
    OBVIOUS
  <1>1. <<>> \in Seq(Parts) /\ <<>> \in Seq(1..MaxLines) OBVIOUS
  <1>2. MaxLines \in Nat /\ MaxRotations \in Nat /\ MaxTruncations \in Nat
    BY BoundsAssumption
  <1>3. TypeOK
    <2>1. content \in [Inodes -> Seq(Parts)] BY <1>1 DEF Init
    <2>2. path \in Inodes /\ xrayFile \in Inodes /\ used \subseteq Inodes BY DEF Init
    <2>3. line \in 1..MaxLines + 1 /\ rotations \in 0..MaxRotations
          /\ truncations \in 0..MaxTruncations
      BY <1>2 DEF Init
    <2> QED BY <1>1, <2>1, <2>2, <2>3 DEF Init, TypeOK
  <1>4. Linked BY ZeroNotInode DEF Init, Linked
  <1> QED BY <1>3, <1>4 DEF Typed

(* The parser's state has its types: a position is never negative, a line  *)
(* is one that Xray logged.                                                *)
THEOREM TailTypeCorrect == Spec => []TypeOK
  <1>1. Typed => TypeOK BY DEF Typed
  <1>2. Typed /\ [Next]_vars => Typed' BY TypedKept
  <1> QED BY <1>1, <1>2, InitTyped, PTL DEF Spec

----------------------------------------------------------------------------
(* The order of the lines.  Whatever a pass may still count is larger than *)
(* what was counted: what is left in the buffer, the file behind it or, if *)
(* it became shorter, all of that file, and then the file at the path.     *)

Counted == ToSet(recorded) \cup ToSet(delta)

\* Where reading goes on that had come to position p.
From(i, p) == IF p > Len(content[i]) THEN 0 ELSE p
Start(i) == IF i = LastInode THEN From(i, LastPos) ELSE 0

FilesInOrder ==
    \A i \in Inodes : Ascending(content[i]) /\ Before(Ends(content[i], 0), {line})

CountedInOrder ==
    /\ Increasing(recorded) /\ Increasing(delta)
    /\ Before(ToSet(recorded), ToSet(delta))
    /\ Before(Counted, {line})

PathAhead ==
    /\ pc = "waiting" /\ path # 0 => Before(Counted, Ends(content[path], Start(path)))
    /\ pc # "waiting" /\ path \notin {0, file} =>
          Before(Counted \cup Ends(content[file], 0) \cup Ends(buffer, 0),
                 Ends(content[path], 0))

PassAhead ==
    /\ pc = "opened" => Before(Counted, Ends(content[file], Start(file)))
    /\ pc = "reading" => Before(Counted, Ends(content[file], From(file, newPos)))

BufferAhead ==
    /\ pc # "reading" => buffer = <<>>
    /\ Ascending(buffer) /\ Before(Ends(buffer, 0), {line})
    /\ Before(Counted, Ends(buffer, 0))
    /\ pc = "reading" => \A k \in 1..Len(buffer) : buffer[k].nl =>
          Before({buffer[k].line}, Ends(content[file], From(file, newPos + k)))

OrderInv == FilesInOrder /\ CountedInOrder /\ PathAhead /\ PassAhead /\ BufferAhead

LEMMA CountedTyped == ASSUME Typed PROVE Counted \subseteq 1..MaxLines
  <1>1. recorded \in Seq(1..MaxLines) /\ delta \in Seq(1..MaxLines) BY DEF Typed, TypeOK
  <1>2. ASSUME NEW s \in Seq(1..MaxLines) PROVE ToSet(s) \subseteq 1..MaxLines
    <2>1. DOMAIN s = 1..Len(s) BY LenProperties
    <2>2. \A i \in 1..Len(s) : s[i] \in 1..MaxLines BY ElementOfSeq
    <2> QED BY <2>1, <2>2 DEF ToSet
  <1> QED BY <1>1, <1>2 DEF Counted

LEMMA FileTyped ==
    ASSUME Typed
    PROVE  /\ \A i \in Inodes : content[i] \in Seq(Parts) /\ Len(content[i]) \in Nat
           /\ line \in Nat /\ LastPos \in Nat /\ newPos \in Nat /\ buffer \in Seq(Parts)
           /\ path \in Inodes \cup {0} /\ file \in Inodes \cup {0}
           /\ pc # "waiting" => file \in Inodes
           /\ \A i \in Inodes : Start(i) \in Nat /\ \A p \in Nat : From(i, p) \in Nat
  <1>1. \A i \in Inodes : content[i] \in Seq(Parts) /\ Len(content[i]) \in Nat
    BY SeqTyped DEF Typed, TypeOK
  <1>2. LastPos \in Nat BY DEF Typed, TypeOK
  <1>3. MaxLines \in Nat BY BoundsAssumption
  <1>4. line \in Nat /\ newPos \in Nat /\ buffer \in Seq(Parts)
        /\ path \in Inodes \cup {0} /\ file \in Inodes \cup {0}
        /\ (pc # "waiting" => file \in Inodes)
    BY <1>3 DEF Typed, TypeOK, Linked
  <1> QED BY <1>1, <1>2, <1>4 DEF Start, From

LEMMA BeforeLater ==
    ASSUME NEW A, A \subseteq 1..MaxLines, NEW l \in Nat, NEW m \in Nat, l <= m,
           Before(A, {l})
    PROVE  Before(A, {m})
  BY DEF Before

(* A step of the environment that takes no line back: it may add the line  *)
(* at hand, which is larger than all others, to the file Xray has open.    *)
LEMMA GrowthKeepsOrder ==
    ASSUME Typed, OrderInv, Typed', XrayWritesHalf \/ XrayWritesRest
    PROVE  OrderInv'
  <1> DEFINE x == xrayFile
  <1>1. PICK p \in Parts :
        /\ content' = [content EXCEPT ![x] = Append(content[x], p)]
        /\ x \in Inodes
        /\ p.nl => p.line = line /\ line' = line + 1
        /\ line' = line \/ line' = line + 1
    <2>1. line \in 1..MaxLines + 1 /\ MaxLines \in Nat /\ x \in Inodes \cup {0}
      BY PartsTyped DEF Typed, TypeOK
    <2>2. CASE XrayWritesHalf
      <3>1. line \in 1..MaxLines /\ x \in Inodes BY <2>1, <2>2 DEF XrayWritesHalf
      <3>2. First(line) \in Parts /\ ~First(line).nl BY <3>1, PartsTyped DEF First
      <3> QED BY <2>2, <3>1, <3>2 DEF XrayWritesHalf
    <2>3. CASE XrayWritesRest
      <3>1. line \in 1..MaxLines /\ x \in Inodes
        BY <2>1, <2>3 DEF XrayWritesRest, Typed, Linked
      <3>2. Rest(line) \in Parts /\ Rest(line).line = line BY <3>1, PartsTyped DEF Rest
      <3>3. line' = line + 1
            /\ content' = [content EXCEPT ![x] = Append(content[x], Rest(line))]
        BY <2>3 DEF XrayWritesRest
      <3> QED BY <3>1, <3>2, <3>3
    <2> QED BY <2>2, <2>3
  <1>2. UNCHANGED <<path, LastPos, LastInode, pc, file, newPos, buffer, delta, recorded>>
    BY DEF XrayWritesHalf, XrayWritesRest, passVars
  <1>3. /\ \A i \in Inodes : content[i] \in Seq(Parts) /\ Len(content[i]) \in Nat
        /\ line \in Nat /\ LastPos \in Nat /\ newPos \in Nat /\ buffer \in Seq(Parts)
        /\ path \in Inodes \cup {0} /\ file \in Inodes \cup {0}
        /\ pc # "waiting" => file \in Inodes
        /\ \A i \in Inodes : Start(i) \in Nat /\ \A q \in Nat : From(i, q) \in Nat
    BY FileTyped
  <1>4. \A i \in Inodes : content'[i] = IF i = x THEN Append(content[i], p) ELSE content[i]
    BY <1>1 DEF Typed, TypeOK
  <1>0. line \in Nat /\ line' \in Nat /\ line <= line'
    <2>1. line \in Nat BY <1>3
    <2>2. line' = line \/ line' = line + 1 BY <1>1
    <2> QED BY <2>1, <2>2
  <1> HIDE DEF x
  \* What a file grows by.
  <1>5. ASSUME NEW i \in Inodes
        PROVE  /\ Len(content'[i]) \in Nat /\ Len(content'[i]) >= Len(content[i])
               /\ content'[i] \in Seq(Parts)
               /\ \A n \in Nat : Ends(content'[i], n)
                     \subseteq Ends(content[i], n) \cup (IF i = x THEN {line} ELSE {})
    <2>1. content[i] \in Seq(Parts) /\ Len(content[i]) \in Nat BY <1>3
    <2>2. CASE i = x
      <3>1. content'[i] = Append(content[i], p) BY <1>4, <2>2
      <3>2. p.nl => p.line = line BY <1>1
      <3>3. \A n \in Nat : Ends(content'[i], n) \subseteq Ends(content[i], n) \cup {line}
        BY <2>1, <3>1, <3>2, AppendEnds
      <3> QED BY <2>1, <2>2, <3>1, <3>3, AppendTyped
    <2>3. CASE i # x
      <3>1. content'[i] = content[i] BY <1>4, <2>3
      <3> QED BY <2>1, <3>1
    <2> QED BY <2>2, <2>3
  <1>6. ASSUME NEW i \in Inodes, NEW q \in Nat
        PROVE  From(i, q)' \in Nat /\ From(i, q)' >= From(i, q)
    <2>1. Len(content[i]) \in Nat /\ Len(content'[i]) \in Nat
          /\ Len(content'[i]) >= Len(content[i])
      BY <1>3, <1>5
    <2> QED BY <2>1 DEF From
  <1>7. \A i \in Inodes : Start(i)' \in Nat /\ Start(i)' >= Start(i)
    BY <1>2, <1>3, <1>6 DEF Start
  \* What was behind it stays behind it.
  <1>8. ASSUME NEW C, NEW i \in Inodes, NEW n \in Nat, NEW m \in Nat, n <= m,
               Before(C, {line}), Before(C, Ends(content[i], n))
        PROVE  Before(C, Ends(content'[i], m))
    <2>1. Ends(content'[i], m) \subseteq Ends(content[i], m) \cup {line} BY <1>5
    <2>2. Ends(content[i], m) \subseteq Ends(content[i], n) BY <1>3, <1>8, EndsShrink
    <2> QED BY <1>8, <2>1, <2>2 DEF Before
  <1>9. /\ Before(Counted, {line}) /\ Before(Ends(buffer, 0), {line})
        /\ \A i \in Inodes : Before(Ends(content[i], 0), {line})
    BY DEF OrderInv, FilesInOrder, CountedInOrder, BufferAhead
  <1>10. Counted' = Counted BY <1>2 DEF Counted
  <1>11. FilesInOrder'
    <2> SUFFICES ASSUME NEW i \in Inodes
                 PROVE  Ascending(content'[i]) /\ Before(Ends(content'[i], 0), {line'})
      BY DEF FilesInOrder
    <2>1. Ascending(content[i]) BY DEF OrderInv, FilesInOrder
    <2>2. Ascending(content'[i])
      BY <1>1, <1>3, <1>4, <1>9, <2>1, AppendAscends
    <2>3. Before(Ends(content'[i], 0), {line'})
      <3>1. CASE p.nl
        <4>1. line' = line + 1 BY <1>1, <3>1
        <4>2. Ends(content'[i], 0) \subseteq Ends(content[i], 0) \cup {line} BY <1>5
        <4>3. Ends(content[i], 0) \subseteq 1..MaxLines BY <1>3, EndsTyped
        <4>4. Before(Ends(content[i], 0), {line}) /\ line \in Nat BY <1>3, <1>9
        <4>5. Before(Ends(content[i], 0), {line'}) BY <4>1, <4>3, <4>4, BeforeLater
        <4>6. Before({line}, {line'}) BY <4>1, <4>4 DEF Before
        <4> QED BY <4>2, <4>5, <4>6 DEF Before
      <3>2. CASE ~p.nl
        <4>1. Ends(content'[i], 0) \subseteq Ends(content[i], 0)
          BY <1>1, <1>3, <1>4, <3>2, AppendEnds
        <4>2. Ends(content[i], 0) \subseteq 1..MaxLines BY <1>3, EndsTyped
        <4>3. Before(Ends(content[i], 0), {line'}) BY <1>0, <1>9, <4>2, BeforeLater
        <4> QED BY <4>1, <4>3 DEF Before
      <3> QED BY <3>1, <3>2
    <2> QED BY <2>2, <2>3
  <1>12. CountedInOrder'
    <2>1. Counted \subseteq 1..MaxLines BY CountedTyped
    <2>2. Before(Counted, {line'}) BY <1>0, <1>9, <2>1, BeforeLater
    <2> QED BY <1>2, <1>10, <2>2 DEF OrderInv, CountedInOrder
  <1>13. PathAhead'
    <2>1. ASSUME pc = "waiting", path # 0
          PROVE  Before(Counted, Ends(content'[path], Start(path)'))
      <3>1. path \in Inodes BY <1>3, <2>1
      <3>2. Start(path) \in Nat /\ Start(path)' \in Nat /\ Start(path) <= Start(path)'
        BY <1>2, <1>3, <1>7, <3>1 DEF Start
      <3>3. Before(Counted, Ends(content[path], Start(path)))
        BY <2>1 DEF OrderInv, PathAhead
      <3> QED BY <1>8, <1>9, <3>1, <3>2, <3>3
    <2>2. ASSUME pc # "waiting", path \notin {0, file}
          PROVE  Before(Counted \cup Ends(content'[file], 0) \cup Ends(buffer, 0),
                        Ends(content'[path], 0))
      <3> DEFINE C == Counted \cup Ends(content[file], 0) \cup Ends(buffer, 0)
      <3>1. Before(C, Ends(content[path], 0)) /\ path \in Inodes /\ file \in Inodes
        BY <1>3, <2>2 DEF OrderInv, PathAhead
      <3>2. Before(C, {line}) BY <1>9, <3>1 DEF Before
      <3>3. CASE x = file
        <4>1. content[path] = <<>> /\ content'[path] = content[path]
          BY <1>1, <1>4, <2>2, <3>1, <3>3, ZeroNotInode DEF Typed, Linked, x
        <4> QED BY <4>1, EndsOfEmpty DEF Before
      <3>4. CASE x # file
        <4>1. Before(C, Ends(content'[path], 0)) BY <1>8, <3>1, <3>2
        <4>2. content'[file] = content[file] BY <1>4, <3>1, <3>4
        <4> QED BY <4>1, <4>2
      <3> QED BY <3>3, <3>4
    <2> QED BY <1>2, <1>10, <2>1, <2>2 DEF PathAhead
  <1>14. PassAhead'
    BY <1>2, <1>3, <1>6, <1>7, <1>8, <1>9, <1>10 DEF OrderInv, PassAhead
  <1>15. BufferAhead'
    <2>1. Ends(buffer, 0) \subseteq 1..MaxLines BY <1>3, EndsTyped
    <2>2. Before(Ends(buffer, 0), {line'}) BY <1>0, <1>9, <2>1, BeforeLater
    <2>3. ASSUME pc = "reading", NEW k \in 1..Len(buffer), buffer[k].nl
          PROVE  Before({buffer[k].line}, Ends(content'[file], From(file, newPos + k)'))
      <3>1. newPos + k \in Nat /\ file \in Inodes BY <1>3, <2>3
      <3>2. Before({buffer[k].line}, Ends(content[file], From(file, newPos + k)))
        BY <2>3 DEF OrderInv, BufferAhead
      <3>3. buffer[k].line \in Ends(buffer, 0) BY <2>3 DEF Ends
      <3>4. Before({buffer[k].line}, {line}) BY <1>9, <3>3 DEF Before
      <3>5. From(file, newPos + k) \in Nat /\ From(file, newPos + k)' \in Nat
            /\ From(file, newPos + k) <= From(file, newPos + k)'
        BY <1>2, <1>3, <1>6, <3>1 DEF From
      <3> QED BY <1>8, <3>1, <3>2, <3>4, <3>5
    <2>4. pc # "reading" => buffer = <<>> BY DEF OrderInv, BufferAhead
    <2>5. Ascending(buffer) /\ Before(Counted, Ends(buffer, 0)) BY DEF OrderInv, BufferAhead
    <2> QED BY <1>2, <1>10, <2>2, <2>3, <2>4, <2>5 DEF BufferAhead
  <1> QED BY <1>11, <1>12, <1>13, <1>14, <1>15 DEF OrderInv

(* A file is created or emptied at the path: nothing is behind anything.   *)
LEMMA EmptyingKeepsOrder ==
    ASSUME Typed, OrderInv, Truncate \/ \E i \in Inodes : Create(i)
    PROVE  OrderInv'
  <1>1. PICK e \in Inodes :
        /\ content' = [content EXCEPT ![e] = <<>>] /\ path' = e
        /\ UNCHANGED <<line, LastPos, LastInode, pc, file, newPos, buffer, delta, recorded>>
    <2>1. CASE Truncate
      BY <2>1 DEF Truncate, Typed, TypeOK, passVars, xrayVars
    <2>2. CASE ~Truncate
      BY <2>2 DEF Create, passVars, xrayVars
    <2> QED BY <2>1, <2>2
  <1>2. \A i \in Inodes : content'[i] = IF i = e THEN <<>> ELSE content[i]
    BY <1>1 DEF Typed, TypeOK
  <1>3. \A n : Ends(content'[e], n) = {} BY <1>2, EndsOfEmpty
  <1>4. Counted' = Counted BY <1>1 DEF Counted
  <1>5. pc # "waiting" => file \in Inodes BY FileTyped
  <1>6. FilesInOrder'
    <2>1. \A i \in Inodes : i # e => content'[i] = content[i] BY <1>2
    <2>2. Ascending(content'[e]) BY <1>2, EndsOfEmpty
    <2> QED BY <1>1, <1>3, <2>1, <2>2 DEF OrderInv, FilesInOrder, Before
  <1>7. CountedInOrder' BY <1>1, <1>4 DEF OrderInv, CountedInOrder
  <1>8. PathAhead' BY <1>1, <1>3 DEF PathAhead, Before
  \* The file that is read is either the one emptied, or as it was.
  <1>9. ASSUME NEW C, NEW n, pc # "waiting", NEW m, m = n \/ file = e,
               Before(C, Ends(content[file], n))
        PROVE  Before(C, Ends(content'[file], m))
    BY <1>2, <1>3, <1>5, <1>9 DEF Before
  <1>10. pc # "waiting" => file = e \/ \A q : From(file, q)' = From(file, q)
    BY <1>1, <1>2, <1>5 DEF From
  <1>11. pc # "waiting" => file = e \/ Start(file)' = Start(file)
    BY <1>1, <1>10 DEF Start
  <1>12. PassAhead'
    BY <1>1, <1>4, <1>9, <1>10, <1>11 DEF OrderInv, PassAhead
  <1>13. BufferAhead'
    <2>1. ASSUME pc = "reading", NEW k \in 1..Len(buffer), buffer[k].nl
          PROVE  Before({buffer[k].line}, Ends(content'[file], From(file, newPos + k)'))
      BY <1>1, <1>9, <1>10, <2>1 DEF OrderInv, BufferAhead
    <2> QED BY <1>1, <1>4, <2>1 DEF OrderInv, BufferAhead
  <1> QED BY <1>6, <1>7, <1>8, <1>12, <1>13 DEF OrderInv

(* The log is renamed, and Xray stops or opens it again.                   *)
LEMMA MovingKeepsOrder == ASSUME OrderInv, Rename \/ XrayStops \/ XrayOpens PROVE OrderInv'
  <1>1. /\ path' = path \/ path' = 0
        /\ UNCHANGED <<content, line, LastPos, LastInode, pc, file, newPos, buffer, delta,
                       recorded>>
    BY DEF Rename, XrayStops, XrayOpens, fsVars, xrayVars, passVars
  <1> QED BY <1>1 DEF OrderInv, FilesInOrder, CountedInOrder, PathAhead, PassAhead, BufferAhead,
                      Counted, Start, From

(* A file is adopted with the position where reading of it goes on.        *)
LEMMA AdoptStarts ==
    ASSUME Typed, pc = "opened", Adopt, content' = content
    PROVE  /\ file \in Inodes /\ Len(content[file]) \in Nat
           /\ LastInode' = file /\ LastPos' = Start(file) /\ LastPos' \in Nat
           /\ LastPos' = 0 \/ LastPos' <= Len(content[file])
  <1>1. file \in Inodes /\ file # 0 /\ Len(content[file]) \in Nat /\ LastPos \in Nat
    BY FileTyped, ZeroNotInode
  <1>2. LastInode = 0 => LastPos = 0 BY DEF Typed, Linked
  <1>3. LastInode' = file /\ LastPos' = StartPos(file, Len(content[file])) BY DEF Adopt
  <1>4. LastPos' = Start(file) /\ (LastPos' = 0 \/ LastPos' <= Len(content[file]))
    BY <1>1, <1>2, <1>3 DEF Start, StartPos, From
  <1>5. Start(file) \in Nat BY <1>1, FileTyped
  <1> QED BY <1>1, <1>3, <1>4, <1>5

(* A pass that fails leaves the position where the next one goes on.       *)
LEMMA FailingKeepsOrder ==
    ASSUME Typed, OrderInv, StatFails \/ SeekFails
    PROVE  OrderInv'
  <1>1. /\ pc = "opened" /\ pc' = "waiting" /\ file' = 0
        /\ UNCHANGED <<content, path, line, newPos, buffer, delta, recorded>>
    BY DEF StatFails, SeekFails, fsVars, xrayVars, passVars
  <1>2. Counted' = Counted BY <1>1 DEF Counted
  <1>3. path \in Inodes \cup {0} /\ (path # 0 => content[path] \in Seq(Parts))
        /\ file \in Inodes
    BY <1>1, FileTyped
  <1>4. \A i \in Inodes : i = file => Start(i)' = Start(i)
    <2>1. CASE StatFails
      <3>1. UNCHANGED <<LastPos, LastInode>> BY <2>1 DEF StatFails
      <3> QED BY <1>1, <3>1 DEF Start, From
    <2>2. CASE SeekFails
      <3>1. Adopt BY <2>2 DEF SeekFails
      <3>2. /\ Len(content[file]) \in Nat /\ LastInode' = file
            /\ LastPos' = Start(file) /\ LastPos' \in Nat
            /\ LastPos' = 0 \/ LastPos' <= Len(content[file])
        BY <1>1, <3>1, AdoptStarts
      <3>3. \A i \in Inodes : i = file =>
               Start(i)' = IF LastPos' > Len(content[i]) THEN 0 ELSE LastPos'
        BY <1>1, <3>2 DEF Start, From
      <3> QED BY <3>2, <3>3
    <2> QED BY <2>1, <2>2
  <1>5. PathAhead'
    <2> SUFFICES ASSUME path # 0
                 PROVE  Before(Counted, Ends(content[path], Start(path)'))
      BY <1>1, <1>2 DEF PathAhead
    <2>1. CASE path = file
      <3>1. Before(Counted, Ends(content[file], Start(file)))
        BY <1>1 DEF OrderInv, PassAhead
      <3>2. Start(path)' = Start(file)
        <4>1. PICK i \in Inodes : i = file BY <1>3
        <4>2. Start(path)' = Start(i)' BY <1>1, <2>1, <4>1 DEF Start, From
        <4> QED BY <1>4, <4>1, <4>2
      <3> QED BY <2>1, <3>1, <3>2
    <2>2. CASE path # file
      <3>1. Before(Counted, Ends(content[path], 0))
        BY <1>1, <2>2 DEF OrderInv, PathAhead, Before
      <3>2. Start(path)' \in Nat
        <4>1. Typed' BY FailTyped
        <4>2. LastPos' \in Nat BY <4>1, FileTyped DEF Typed, TypeOK
        <4> QED BY <4>2 DEF Start, From
      <3>3. Ends(content[path], Start(path)') \subseteq Ends(content[path], 0)
        BY <1>3, <3>2, EndsShrink
      <3> QED BY <3>1, <3>3 DEF Before
    <2> QED BY <2>1, <2>2
  <1>6. PassAhead' BY <1>1 DEF PassAhead
  <1>7. BufferAhead' BY <1>1, <1>2 DEF OrderInv, BufferAhead
  <1>8. FilesInOrder' /\ CountedInOrder'
    BY <1>1, <1>2 DEF OrderInv, FilesInOrder, CountedInOrder
  <1> QED BY <1>5, <1>6, <1>7, <1>8 DEF OrderInv

(* A pass begins where the last one ended, if it finds the same file, and  *)
(* at the start otherwise.                                                 *)
LEMMA OpeningKeepsOrder == ASSUME Typed, OrderInv, Open \/ Stat PROVE OrderInv'
  <1>1. CASE Open
    <2>1. /\ pc = "waiting" /\ pc' = "opened" /\ path # 0 /\ file' = path
          /\ UNCHANGED <<content, path, line, LastPos, LastInode, newPos, buffer, delta, recorded>>
      BY <1>1 DEF Open, fsVars, xrayVars, passVars
    <2>2. Counted' = Counted /\ Start(path)' = Start(path)
      BY <2>1 DEF Counted, Start, From
    <2>3. PathAhead' BY <2>1 DEF PathAhead
    <2>4. PassAhead' BY <2>1, <2>2 DEF OrderInv, PathAhead, PassAhead, Start, From
    <2>5. BufferAhead' BY <2>1, <2>2 DEF OrderInv, BufferAhead
    <2>6. FilesInOrder' /\ CountedInOrder'
      BY <2>1, <2>2 DEF OrderInv, FilesInOrder, CountedInOrder
    <2> QED BY <2>3, <2>4, <2>5, <2>6 DEF OrderInv
  <1>2. CASE Stat
    <2>1. /\ pc = "opened" /\ pc' = "reading" /\ buffer' = <<>> /\ delta' = <<>>
          /\ newPos' = LastPos' /\ Adopt
          /\ UNCHANGED <<content, path, line, file, recorded>>
      BY <1>2 DEF Stat, fsVars, xrayVars
    <2>2. delta = <<>> /\ buffer = <<>> BY <2>1 DEF Typed, Linked, OrderInv, BufferAhead
    <2>5. From(file, newPos)' = Start(file)
      <3>1. From(file, newPos)' = IF newPos' > Len(content[file]) THEN 0 ELSE newPos'
        BY <2>1 DEF From
      <3> QED BY <2>1, <3>1, AdoptStarts
    <2>6. Counted' = Counted BY <2>1, <2>2 DEF Counted
    <2>7. PassAhead' BY <2>1, <2>5, <2>6 DEF OrderInv, PassAhead
    <2>8. PathAhead' BY <2>1, <2>2, <2>6 DEF OrderInv, PathAhead
    <2>9. BufferAhead' BY <2>1, EndsOfEmpty DEF BufferAhead, Before
    <2>10. FilesInOrder' /\ CountedInOrder'
      BY <2>1, <2>2, <2>6 DEF OrderInv, FilesInOrder, CountedInOrder
    <2> QED BY <2>7, <2>8, <2>9, <2>10 DEF OrderInv
  <1> QED BY <1>1, <1>2

(* What is fetched is a piece of the file, where the buffer holds no line. *)
LEMMA FillingKeepsOrder == ASSUME Typed, OrderInv, Fill PROVE OrderInv'
  <1> DEFINE f == content[file]
             n == newPos + Len(buffer)
  <1>1. /\ pc = "reading"
        /\ UNCHANGED <<content, path, line, LastPos, LastInode, pc, file, newPos, delta, recorded>>
    BY DEF Fill, fsVars, xrayVars
  <1>2. /\ buffer' \in Seq(Parts)
        /\ Len(buffer') > Len(buffer) /\ newPos + Len(buffer') <= Len(f)
        /\ \A i \in 1..Len(buffer) : buffer'[i] = buffer[i] /\ ~buffer[i].nl
        /\ \A i \in 1..Len(buffer') : i > Len(buffer) =>
              newPos + i \in 1..Len(f) /\ buffer'[i] = f[newPos + i]
    BY FillEffect
  <1>3. file \in Inodes /\ f \in Seq(Parts) /\ Len(f) \in Nat /\ newPos \in Nat
        /\ Len(buffer) \in Nat /\ Len(buffer') \in Nat
    BY <1>1, <1>2, FileTyped, SeqTyped
  <1>4. Ascending(f) /\ Before(Ends(f, 0), {line}) BY <1>3 DEF OrderInv, FilesInOrder
  <1>5. Before(Counted, Ends(f, From(file, newPos))) BY <1>1 DEF OrderInv, PassAhead
  <1>6. From(file, newPos) = newPos /\ \A i \in 1..Len(buffer') : From(file, newPos + i) = newPos + i
    BY <1>2, <1>3 DEF From
  <1> HIDE DEF f
  <1>7. \A i \in 1..Len(buffer') : buffer'[i].nl =>
           newPos + i \in 1..Len(f) /\ buffer'[i] = f[newPos + i]
    BY SMTT(40), <1>2, <1>3
  <1>8. Ends(buffer', 0) \subseteq Ends(f, newPos) /\ Ends(f, newPos) \subseteq Ends(f, 0)
    <2>1. \A i \in 1..Len(buffer') : newPos + i > newPos BY <1>3
    <2> QED BY <1>3, <1>7, <2>1, EndsShrink DEF Ends
  <1>9. Ascending(buffer')
    <2> SUFFICES ASSUME NEW i \in 1..Len(buffer'), NEW j \in 1..Len(buffer'),
                        i < j, buffer'[i].nl, buffer'[j].nl
                 PROVE  buffer'[i].line < buffer'[j].line
      BY DEF Ascending
    <2>1. newPos + i \in 1..Len(f) /\ buffer'[i] = f[newPos + i]
          /\ newPos + j \in 1..Len(f) /\ buffer'[j] = f[newPos + j]
      BY <1>7
    <2>2. newPos + i < newPos + j BY <1>3
    <2> QED BY <1>4, <2>1, <2>2 DEF Ascending
  <1>10. Counted' = Counted BY <1>1 DEF Counted
  <1>11. BufferAhead'
    <2>1. Before(Ends(buffer', 0), {line}) /\ Before(Counted, Ends(buffer', 0))
      BY <1>4, <1>5, <1>6, <1>8 DEF Before
    <2>2. ASSUME NEW k \in 1..Len(buffer'), buffer'[k].nl
          PROVE  Before({buffer'[k].line}, Ends(f, From(file, newPos + k)))
      <3>1. newPos + k \in 1..Len(f) /\ buffer'[k] = f[newPos + k] BY <1>7, <2>2
      <3> QED BY <1>3, <1>4, <1>6, <2>2, <3>1, AscendingAhead
    <2> QED BY <1>1, <1>9, <1>10, <2>1, <2>2 DEF BufferAhead, f, From
  <1>12. PathAhead'
    BY <1>1, <1>8, <1>10 DEF OrderInv, PathAhead, Before, f
  <1>13. PassAhead' BY <1>1, <1>10 DEF OrderInv, PassAhead, From
  <1>14. FilesInOrder' /\ CountedInOrder'
    BY <1>1, <1>10 DEF OrderInv, FilesInOrder, CountedInOrder
  <1> QED BY <1>11, <1>12, <1>13, <1>14 DEF OrderInv

(* Lines joined behind smaller ones.                                       *)
LEMMA JoinedLines ==
    ASSUME NEW r \in Seq(1..MaxLines), NEW d \in Seq(1..MaxLines)
    PROVE  /\ ToSet(r \o d) = ToSet(r) \cup ToSet(d)
           /\ Increasing(r) /\ Increasing(d) /\ Before(ToSet(r), ToSet(d)) => Increasing(r \o d)
  <1> DEFINE t == r \o d
  <1>1. /\ Len(r) \in Nat /\ Len(d) \in Nat /\ DOMAIN r = 1..Len(r) /\ DOMAIN d = 1..Len(d)
    BY LenProperties
  <1>2. /\ t \in Seq(1..MaxLines) /\ Len(t) = Len(r) + Len(d)
        /\ \A i \in 1..Len(r) + Len(d) : t[i] = IF i <= Len(r) THEN r[i] ELSE d[i - Len(r)]
    BY ConcatProperties
  <1>3. DOMAIN t = 1..Len(t) BY <1>2, LenProperties
  <1> HIDE DEF t
  <1>4. \A i \in 1..Len(r) : i \in 1..Len(t) /\ t[i] = r[i] BY <1>1, <1>2
  <1>5. \A i \in 1..Len(d) : Len(r) + i \in 1..Len(t) /\ t[Len(r) + i] = d[i] BY SMTT(40), <1>1, <1>2
  <1>6. \A i \in 1..Len(t) : i \in 1..Len(r) \/ (i > Len(r) /\ i - Len(r) \in 1..Len(d)
                                                 /\ t[i] = d[i - Len(r)])
    BY <1>1, <1>2
  <1>7. ToSet(t) = ToSet(r) \cup ToSet(d)
    <2>1. ASSUME NEW v \in ToSet(t) PROVE v \in ToSet(r) \cup ToSet(d)
      BY <1>1, <1>3, <1>4, <1>6, <2>1 DEF ToSet
    <2>2. ASSUME NEW v \in ToSet(r) PROVE v \in ToSet(t)
      BY <1>1, <1>3, <1>4, <2>2 DEF ToSet
    <2>3. ASSUME NEW v \in ToSet(d) PROVE v \in ToSet(t)
      BY <1>1, <1>3, <1>5, <2>3 DEF ToSet
    <2> QED BY <2>1, <2>2, <2>3
  <1>8. ASSUME Increasing(r), Increasing(d), Before(ToSet(r), ToSet(d)),
               NEW i \in 1..Len(t), NEW j \in 1..Len(t), i < j
        PROVE  t[i] < t[j]
    <2>1. CASE i \in 1..Len(r) /\ j \in 1..Len(r)
      BY <1>4, <1>8, <2>1 DEF Increasing
    <2>2. CASE i \in 1..Len(r) /\ j \notin 1..Len(r)
      <3>1. t[i] \in ToSet(r) BY <1>1, <1>4, <2>2 DEF ToSet
      <3>2. t[j] \in ToSet(d) BY <1>1, <1>6, <2>2 DEF ToSet
      <3> QED BY <1>8, <3>1, <3>2 DEF Before
    <2>3. CASE i \notin 1..Len(r)
      <3>1. j \notin 1..Len(r) BY <1>1, <1>2, <1>8, <2>3
      <3>2. i - Len(r) \in 1..Len(d) /\ j - Len(r) \in 1..Len(d)
            /\ t[i] = d[i - Len(r)] /\ t[j] = d[j - Len(r)]
        BY <1>6, <2>3, <3>1
      <3>3. i - Len(r) < j - Len(r) BY <1>1, <1>8
      <3> QED BY <1>8, <3>2, <3>3 DEF Increasing
    <2> QED BY <2>1, <2>2, <2>3
  <1>9. Increasing(r) /\ Increasing(d) /\ Before(ToSet(r), ToSet(d)) => Increasing(t)
    BY <1>8 DEF Increasing
  <1> QED BY <1>7, <1>9 DEF t

LEMMA OneLine ==
    ASSUME NEW l \in 1..MaxLines
    PROVE  <<l>> \in Seq(1..MaxLines) /\ ToSet(<<l>>) = {l} /\ Increasing(<<l>>)
  <1>1. <<l>> \in Seq(1..MaxLines) /\ Len(<<l>>) = 1 /\ <<l>>[1] = l /\ DOMAIN <<l>> = 1..1
    OBVIOUS
  <1> QED BY <1>1 DEF ToSet, Increasing

(* A line that is read is larger than all counted ones, and smaller than   *)
(* what is left.                                                           *)
LEMMA ReadingKeepsOrder == ASSUME Typed, OrderInv, ReadLine PROVE OrderInv'
  <1> DEFINE f == content[file]
             b == buffer
  <1>1. PICK n \in 1..Len(b) : LineRead(n) BY ReadLineEffect
  <1>2. /\ pc = "reading"
        /\ UNCHANGED <<content, path, line, LastPos, LastInode, pc, file, recorded>>
    BY DEF ReadLine, fsVars, xrayVars
  <1> DEFINE l == b[n].line
  <1>3. /\ b[n].nl /\ newPos' = newPos + n
        /\ delta' = IF n = 2 THEN delta \o <<l>> ELSE delta
        /\ Len(buffer') = Len(b) - n
        /\ \A i \in 1..Len(buffer') : n + i \in 1..Len(b) /\ buffer'[i] = b[n + i]
    BY <1>1 DEF LineRead
  <1>4. /\ file \in Inodes /\ f \in Seq(Parts) /\ newPos \in Nat /\ b \in Seq(Parts)
        /\ Len(b) \in Nat /\ l \in 1..MaxLines
        /\ recorded \in Seq(1..MaxLines) /\ delta \in Seq(1..MaxLines)
    BY <1>2, FileTyped, SeqTyped DEF Typed, TypeOK
  <1>5. /\ Ascending(b) /\ Before(Ends(b, 0), {line}) /\ Before(Counted, Ends(b, 0))
        /\ \A k \in 1..Len(b) : b[k].nl => Before({b[k].line}, Ends(f, From(file, newPos + k)))
    BY <1>2 DEF OrderInv, BufferAhead
  <1>6. Counted \subseteq 1..MaxLines /\ Ends(f, From(file, newPos + n)) \subseteq 1..MaxLines
        /\ Ends(b, n) \subseteq 1..MaxLines
    BY <1>4, CountedTyped, EndsTyped
  <1> HIDE DEF f, b
  <1>7. l \in Ends(b, 0) BY SMTT(40), <1>3, <1>4 DEF Ends
  <1>8. Before({l}, Ends(b, n)) BY <1>3, <1>4, <1>5, AscendingAhead
  <1> HIDE DEF l
  <1>9. Before(Counted, {l}) /\ Before({l}, {line}) BY <1>5, <1>7 DEF Before
  <1>10. \A i \in 1..Len(buffer') : n + i > n BY <1>4
  <1>11. Ends(buffer', 0) \subseteq Ends(b, n)
    BY <1>3, <1>10 DEF Ends
  <1>12. Ends(b, n) \subseteq Ends(b, 0) BY <1>4, EndsShrink
  <1>13. /\ Counted' \subseteq Counted \cup {l} /\ Increasing(delta')
         /\ Before(ToSet(recorded), ToSet(delta'))
    <2>1. <<l>> \in Seq(1..MaxLines) /\ ToSet(<<l>>) = {l} /\ Increasing(<<l>>)
      BY <1>4, OneLine
    <2>2. Increasing(delta) /\ Before(ToSet(recorded), ToSet(delta))
      BY DEF OrderInv, CountedInOrder
    <2>3. Before(ToSet(delta), {l}) /\ Before(ToSet(recorded), {l})
      BY <1>9 DEF Before, Counted
    <2>4. CASE n = 2
      <3>1. delta' = delta \o <<l>> BY <1>3, <2>4
      <3>2. ToSet(delta') = ToSet(delta) \cup {l} /\ Increasing(delta')
        BY <1>4, <2>1, <2>2, <2>3, <3>1, JoinedLines
      <3> QED BY <1>2, <2>2, <2>3, <3>2 DEF Counted, Before
    <2>5. CASE n # 2
      <3>1. delta' = delta BY <1>3, <2>5
      <3> QED BY <1>2, <2>2, <3>1 DEF Counted
    <2> QED BY <2>4, <2>5
  <1>14. CountedInOrder'
    <2>1. Before(Counted, {line}) BY DEF OrderInv, CountedInOrder
    <2>2. Before(Counted', {line}) BY <1>9, <1>13, <2>1 DEF Before
    <2> QED BY <1>2, <1>13, <2>2 DEF OrderInv, CountedInOrder
  <1>15. PassAhead'
    <2>1. Before({l}, Ends(f, From(file, newPos + n))) BY <1>3, <1>5 DEF l
    <2>2. Before(Counted, Ends(f, From(file, newPos + n)))
      BY <1>4, <1>6, <1>9, <2>1 DEF Before
    <2>3. Before(Counted', Ends(f, From(file, newPos + n)))
      BY <1>13, <2>1, <2>2 DEF Before
    <2>4. From(file, newPos)' = From(file, newPos + n) BY <1>2, <1>3 DEF From
    <2> QED BY <1>2, <2>3, <2>4 DEF PassAhead, f
  <1>16. PathAhead'
    <2>1. ASSUME path \notin {0, file}
          PROVE  Before(Counted' \cup Ends(f, 0) \cup Ends(buffer', 0), Ends(content[path], 0))
      <3>1. Before(Counted \cup Ends(f, 0) \cup Ends(b, 0), Ends(content[path], 0))
        BY <1>2, <2>1 DEF OrderInv, PathAhead, f, b
      <3>2. Counted' \cup Ends(f, 0) \cup Ends(buffer', 0)
               \subseteq Counted \cup Ends(f, 0) \cup Ends(b, 0)
        BY <1>7, <1>11, <1>12, <1>13
      <3> QED BY <3>1, <3>2 DEF Before
    <2> QED BY <1>2, <2>1 DEF PathAhead, f
  <1>17. BufferAhead'
    <2>1. Ascending(buffer')
      <3> SUFFICES ASSUME NEW i \in 1..Len(buffer'), NEW j \in 1..Len(buffer'),
                          i < j, buffer'[i].nl, buffer'[j].nl
                   PROVE  buffer'[i].line < buffer'[j].line
        BY DEF Ascending
      <3>1. n + i \in 1..Len(b) /\ n + j \in 1..Len(b) /\ n + i < n + j BY <1>3, <1>4
      <3> QED BY <1>3, <1>5, <3>1 DEF Ascending
    <2>2. Before(Ends(buffer', 0), {line}) BY <1>5, <1>11, <1>12 DEF Before
    <2>3. Before(Counted', Ends(buffer', 0))
      BY <1>5, <1>8, <1>11, <1>12, <1>13 DEF Before
    <2>4. ASSUME NEW k \in 1..Len(buffer'), buffer'[k].nl
          PROVE  Before({buffer'[k].line}, Ends(f, From(file, newPos + k)'))
      <3>1. n + k \in 1..Len(b) /\ buffer'[k] = b[n + k] BY <1>3
      <3>2. newPos' + k = newPos + (n + k) BY <1>3, <1>4
      <3>3. From(file, newPos + k)' = From(file, newPos + (n + k)) BY <1>2, <3>2 DEF From
      <3> QED BY <1>5, <2>4, <3>1, <3>3
    <2> QED BY <1>2, <2>1, <2>2, <2>3, <2>4 DEF BufferAhead, f
  <1>18. FilesInOrder' BY <1>2 DEF OrderInv, FilesInOrder
  <1> QED BY <1>14, <1>15, <1>16, <1>17, <1>18 DEF OrderInv

(* The end of a pass: what it counted is recorded.                         *)
LEMMA FinishingKeepsOrder == ASSUME Typed, OrderInv, Finish PROVE OrderInv'
  <1>1. /\ pc = "reading" /\ pc' = "waiting" /\ file' = 0
        /\ recorded' = recorded \o delta /\ LastPos' = newPos
        /\ newPos' = 0 /\ buffer' = <<>> /\ delta' = <<>>
        /\ UNCHANGED <<content, path, line, LastInode>>
    BY DEF Finish, EndPos, fsVars, xrayVars
  <1>2. recorded \in Seq(1..MaxLines) /\ delta \in Seq(1..MaxLines)
    BY DEF Typed, TypeOK
  <1>3. ToSet(recorded') = Counted /\ Increasing(recorded')
    BY <1>1, <1>2, JoinedLines DEF OrderInv, CountedInOrder, Counted
  <1>4. ToSet(<<>>) = {} /\ Increasing(<<>>) BY EndsOfEmpty DEF ToSet, Increasing
  <1>5. Counted' = Counted BY <1>1, <1>3, <1>4 DEF Counted
  <1>6. CountedInOrder'
    BY <1>1, <1>3, <1>4, <1>5 DEF OrderInv, CountedInOrder, Before
  <1>7. PathAhead'
    <2> SUFFICES ASSUME path # 0 PROVE Before(Counted, Ends(content[path], Start(path)'))
      BY <1>1, <1>5 DEF PathAhead
    <2>1. LastInode = file BY <1>1 DEF Typed, Linked
    <2>2. CASE path = file
      <3>1. Start(path)' = From(file, newPos) BY <1>1, <2>1, <2>2 DEF Start, From
      <3> QED BY <1>1, <2>2, <3>1 DEF OrderInv, PassAhead
    <2>3. CASE path # file
      <3>1. Start(path)' = 0 BY <1>1, <2>1, <2>3 DEF Start
      <3> QED BY <1>1, <2>3, <3>1 DEF OrderInv, PathAhead, Before
    <2> QED BY <2>2, <2>3
  <1>8. PassAhead' BY <1>1 DEF PassAhead
  <1>9. BufferAhead' BY <1>1, EndsOfEmpty DEF BufferAhead, Before
  <1>10. FilesInOrder' BY <1>1 DEF OrderInv, FilesInOrder
  <1> QED BY <1>6, <1>7, <1>8, <1>9, <1>10 DEF OrderInv

LEMMA OrderStutters == ASSUME OrderInv, UNCHANGED vars PROVE OrderInv'
  BY DEF vars, fsVars, xrayVars, passVars, OrderInv, FilesInOrder, CountedInOrder, PathAhead,
         PassAhead, BufferAhead, Counted, Start, From

TailInv == Typed /\ OrderInv

LEMMA TailInvKept == ASSUME TailInv, [Next]_vars PROVE TailInv'
  <1>1. Typed /\ OrderInv /\ Typed' BY TypedKept DEF TailInv
  <1>2. CASE XrayWritesHalf \/ XrayWritesRest BY <1>1, <1>2, GrowthKeepsOrder DEF TailInv
  <1>3. CASE Truncate \/ \E i \in Inodes : Create(i)
    BY <1>1, <1>3, EmptyingKeepsOrder DEF TailInv
  <1>4. CASE Rename \/ XrayStops \/ XrayOpens BY <1>1, <1>4, MovingKeepsOrder DEF TailInv
  <1>5. CASE Open \/ Stat BY <1>1, <1>5, OpeningKeepsOrder DEF TailInv
  <1>6. CASE Fill BY <1>1, <1>6, FillingKeepsOrder DEF TailInv
  <1>7. CASE ReadLine BY <1>1, <1>7, ReadingKeepsOrder DEF TailInv
  <1>8. CASE EndOfFile \/ ReadError
    BY <1>1, <1>8, FinishingKeepsOrder DEF TailInv, EndOfFile, ReadError
  <1>10. CASE StatFails \/ SeekFails BY <1>1, <1>10, FailingKeepsOrder DEF TailInv
  <1>9. CASE UNCHANGED vars BY <1>1, <1>9, OrderStutters DEF TailInv
  <1> QED BY <1>2, <1>3, <1>4, <1>5, <1>6, <1>7, <1>8, <1>9, <1>10
          DEF Next, Environment, Parser

LEMMA InitTailInv == Init => TailInv
  <1> SUFFICES ASSUME Init PROVE OrderInv
    BY InitTyped DEF TailInv
  <1>1. /\ \A i \in Inodes : content[i] = <<>>
        /\ pc = "waiting" /\ buffer = <<>> /\ recorded = <<>> /\ delta = <<>>
    BY DEF Init
  <1>2. ToSet(<<>>) = {} /\ Increasing(<<>>) BY EndsOfEmpty DEF ToSet, Increasing
  <1>3. Counted = {} BY <1>1, <1>2 DEF Counted
  <1>4. FilesInOrder BY <1>1, EndsOfEmpty DEF FilesInOrder, Before
  <1>5. CountedInOrder BY <1>1, <1>2, <1>3 DEF CountedInOrder, Before
  <1>6. PathAhead /\ PassAhead BY <1>1, <1>3 DEF PathAhead, PassAhead, Before
  <1>7. BufferAhead BY <1>1, EndsOfEmpty DEF BufferAhead, Before
  <1> QED BY <1>4, <1>5, <1>6, <1>7 DEF OrderInv

(* No line is counted twice or out of order, whatever is renamed, reused   *)
(* or truncated in the middle of a pass.                                   *)
THEOREM RecordsInOrder == Spec => []RecordedInOrder
  <1>1. ASSUME TailInv PROVE RecordedInOrder
    <2>1. recorded \in Seq(1..MaxLines) /\ delta \in Seq(1..MaxLines)
      BY <1>1 DEF TailInv, Typed, TypeOK
    <2>2. Increasing(recorded \o delta)
      BY <1>1, <2>1, JoinedLines DEF TailInv, OrderInv, CountedInOrder
    <2>3. DOMAIN (recorded \o delta) = 1..Len(recorded \o delta)
      BY <2>1, ConcatProperties, LenProperties
    <2> QED BY <2>2, <2>3 DEF RecordedInOrder, Increasing
  <1>2. TailInv => RecordedInOrder BY <1>1
  <1>3. TailInv /\ [Next]_vars => TailInv' BY TailInvKept
  <1> QED BY <1>2, <1>3, InitTailInv, PTL DEF Spec

----------------------------------------------------------------------------
(* That nothing is skipped.  In any file a half line is followed by its    *)
(* end, unless it is the one Xray is writing.  As long as its file was not *)
(* emptied, a position stands behind the end of a line, and all whole      *)
(* lines before it are counted; the buffer is the piece that follows.      *)

HalvesCompleted ==
    \A i \in Inodes : \A m \in 1..Len(content[i]) : ~content[i][m].nl =>
        IF m < Len(content[i]) THEN content[i][m+1].nl ELSE i = xrayFile /\ halfWritten

\* WholeLines, of the parts s.
Whole(s, n) ==
    {s[i].line : i \in {i \in 1..n :
        i <= Len(s) /\ s[i].nl /\ i > 1 /\ s[i-1] = First(s[i].line)}}

Caught(s, p, R) == p <= Len(s) /\ (p = 0 \/ s[p].nl) /\ Whole(s, p) \subseteq R

CaughtUp ==
    ~regrown /\ pc # "reading" /\ LastInode # 0 /\ LastInode \notin cut
        => Caught(content[LastInode], LastPos, ToSet(recorded))

CatchingUp ==
    ~regrown /\ pc = "reading" /\ file \notin cut =>
        /\ Caught(content[file], newPos, Counted)
        /\ newPos + Len(buffer) <= Len(content[file])
        /\ \A k \in 1..Len(buffer) : buffer[k] = content[file][newPos + k]

KeepInv == HalvesCompleted /\ CaughtUp /\ CatchingUp

(* Before a position a file that only grows stays as it was.               *)
LEMMA CaughtStays ==
    ASSUME NEW s \in Seq(Parts), NEW t \in Seq(Parts), NEW p \in Nat, NEW R, Caught(s, p, R),
           Len(t) >= Len(s), \A m \in 1..Len(s) : t[m] = s[m]
    PROVE  Caught(t, p, R)
  <1>1. Len(s) \in Nat /\ Len(t) \in Nat /\ p <= Len(s) BY SeqTyped DEF Caught
  <1>2. p <= Len(t) BY <1>1
  <1>3. p = 0 \/ t[p].nl BY <1>1 DEF Caught
  <1>4. ASSUME NEW l \in Whole(t, p) PROVE l \in Whole(s, p)
    <2>1. PICK m \in 1..p :
            /\ l = t[m].line
            /\ m <= Len(t) /\ t[m].nl /\ m > 1 /\ t[m-1] = First(t[m].line)
      BY <1>4 DEF Whole
    <2>2. m \in 1..Len(s) /\ m-1 \in 1..Len(s) BY <1>1, <2>1
    <2>3. t[m] = s[m] /\ t[m-1] = s[m-1] BY <2>2
    <2>4. m <= Len(s) BY <2>2
    <2> QED BY <2>1, <2>3, <2>4 DEF Whole
  <1> QED BY <1>2, <1>3, <1>4 DEF Caught

(* The environment: a file that is not emptied only grows.                 *)
LEMMA GrowthKeepsCaught ==
    ASSUME Typed, KeepInv, XrayWritesHalf \/ XrayWritesRest
    PROVE  KeepInv'
  <1> DEFINE x == xrayFile
  <1>1. PICK p \in Parts :
        /\ content' = [content EXCEPT ![x] = Append(content[x], p)]
        /\ x \in Inodes
        /\ p.nl = halfWritten
    <2>1. line \in 1..MaxLines + 1 /\ MaxLines \in Nat /\ x \in Inodes \cup {0}
          /\ halfWritten \in BOOLEAN
      BY PartsTyped DEF Typed, TypeOK
    <2>2. CASE XrayWritesHalf
      <3>1. line \in 1..MaxLines /\ x \in Inodes BY <2>1, <2>2 DEF XrayWritesHalf
      <3>2. First(line) \in Parts /\ First(line).nl = FALSE BY <3>1, PartsTyped DEF First
      <3>3. halfWritten = FALSE /\ halfWritten' = TRUE
            /\ content' = [content EXCEPT ![x] = Append(content[x], First(line))]
        BY <2>1, <2>2 DEF XrayWritesHalf
      <3> QED BY <3>1, <3>2, <3>3
    <2>3. CASE XrayWritesRest
      <3>1. line \in 1..MaxLines /\ x \in Inodes
        BY <2>1, <2>3 DEF XrayWritesRest, Typed, Linked
      <3>2. Rest(line) \in Parts /\ Rest(line).nl = TRUE BY <3>1, PartsTyped DEF Rest
      <3>3. halfWritten = TRUE /\ halfWritten' = FALSE
            /\ content' = [content EXCEPT ![x] = Append(content[x], Rest(line))]
        BY <2>1, <2>3 DEF XrayWritesRest
      <3> QED BY <3>1, <3>2, <3>3
    <2> QED BY <2>2, <2>3
  <1>2. UNCHANGED <<path, xrayFile, LastPos, LastInode, pc, file, newPos, buffer, delta, recorded,
                    cut, regrown>>
    BY DEF XrayWritesHalf, XrayWritesRest, passVars
  <1>3. \A i \in Inodes : content[i] \in Seq(Parts) /\ Len(content[i]) \in Nat
    BY FileTyped
  <1>4. \A i \in Inodes : content'[i] = IF i = x THEN Append(content[i], p) ELSE content[i]
    BY <1>1 DEF Typed, TypeOK
  <1>5. ~p.nl => halfWritten'
    <2>1. halfWritten \in BOOLEAN BY DEF Typed, TypeOK
    <2>2. CASE XrayWritesHalf BY <2>2 DEF XrayWritesHalf
    <2>3. CASE XrayWritesRest BY <1>1, <2>3 DEF XrayWritesRest
    <2> QED BY <2>2, <2>3
  <1>7. HalvesCompleted'
    <2> SUFFICES ASSUME NEW i \in Inodes, NEW m \in 1..Len(content'[i]), ~content'[i][m].nl
                 PROVE  IF m < Len(content'[i]) THEN content'[i][m+1].nl
                        ELSE i = xrayFile' /\ halfWritten'
      BY DEF HalvesCompleted
    <2>1. content[i] \in Seq(Parts) /\ Len(content[i]) \in Nat BY <1>3
    <2>2. CASE i = x
      <3>1. content'[i] = Append(content[i], p) BY <1>4, <2>2
      <3>2. Len(content'[i]) = Len(content[i]) + 1 /\ content'[i][Len(content[i]) + 1] = p
            /\ \A k \in 1..Len(content[i]) : content'[i][k] = content[i][k]
        BY <2>1, <3>1, AppendTyped
      <3>3. CASE m = Len(content[i]) + 1
        BY <1>2, <1>5, <2>1, <2>2, <3>2, <3>3
      <3>4. CASE m = Len(content[i])
        <4>1. m \in 1..Len(content[i]) /\ ~content[i][m].nl BY <2>1, <3>2, <3>4
        <4>2. halfWritten BY <2>1, <3>4, <4>1 DEF KeepInv, HalvesCompleted
        <4>3. p.nl BY <1>1, <4>2
        <4> QED BY <2>1, <3>2, <3>4, <4>3
      <3>5. CASE m < Len(content[i])
        <4>1. m \in 1..Len(content[i]) /\ m+1 \in 1..Len(content[i]) BY <2>1, <3>5
        <4>2. ~content[i][m].nl BY <3>2, <4>1
        <4>3. content[i][m+1].nl BY <3>5, <4>1, <4>2 DEF KeepInv, HalvesCompleted
        <4> QED BY <2>1, <3>2, <3>5, <4>1, <4>3
      <3> QED BY <2>1, <3>2, <3>3, <3>4, <3>5
    <2>3. CASE i # x
      <3>1. content'[i] = content[i] BY <1>4, <2>3
      <3> QED BY <2>3, <3>1 DEF KeepInv, HalvesCompleted, x
    <2> QED BY <2>2, <2>3
  <1> HIDE DEF x
  <1>8. ASSUME NEW i \in Inodes
        PROVE  /\ content'[i] \in Seq(Parts) /\ Len(content'[i]) >= Len(content[i])
               /\ \A m \in 1..Len(content[i]) : content'[i][m] = content[i][m]
    <2>1. content[i] \in Seq(Parts) /\ Len(content[i]) \in Nat BY <1>3
    <2>2. CASE i = x
      <3>1. content'[i] = Append(content[i], p) BY <1>4, <2>2
      <3> QED BY <2>1, <3>1, AppendTyped
    <2>3. CASE i # x
      <3>1. content'[i] = content[i] BY <1>4, <2>3
      <3> QED BY <2>1, <3>1
    <2> QED BY <2>2, <2>3
  <1>9. CaughtUp'
    <2> SUFFICES ASSUME ~regrown, pc # "reading", LastInode # 0, LastInode \notin cut
                 PROVE  Caught(content'[LastInode], LastPos, ToSet(recorded))
      BY <1>2 DEF CaughtUp
    <2>1. Caught(content[LastInode], LastPos, ToSet(recorded)) BY DEF KeepInv, CaughtUp
    <2>2. LastInode \in Inodes /\ LastPos \in Nat BY DEF Typed, TypeOK
    <2> QED BY <1>3, <1>8, <2>1, <2>2, CaughtStays
  <1>10. Counted' = Counted BY <1>2 DEF Counted
  <1>11. CatchingUp'
    <2> SUFFICES ASSUME ~regrown, pc = "reading", file \notin cut
                 PROVE  /\ Caught(content'[file], newPos, Counted)
                        /\ newPos + Len(buffer) <= Len(content'[file])
                        /\ \A k \in 1..Len(buffer) : buffer[k] = content'[file][newPos + k]
      BY <1>2, <1>10 DEF CatchingUp
    <2>1. /\ Caught(content[file], newPos, Counted)
          /\ newPos + Len(buffer) <= Len(content[file])
          /\ \A k \in 1..Len(buffer) : buffer[k] = content[file][newPos + k]
      BY DEF KeepInv, CatchingUp
    <2>2. file \in Inodes /\ newPos \in Nat /\ Len(buffer) \in Nat /\ Len(content[file]) \in Nat
      BY <1>3, FileTyped, SeqTyped
    <2>4. Caught(content'[file], newPos, Counted)
      BY <1>3, <1>8, <2>1, <2>2, CaughtStays
    <2>5. \A k \in 1..Len(buffer) : newPos + k \in 1..Len(content[file])
      BY <2>1, <2>2
    <2> QED BY <1>8, <2>1, <2>2, <2>4, <2>5
  <1> QED BY <1>7, <1>9, <1>11 DEF KeepInv

(* A file that is emptied is marked, unless it never held a line.          *)
LEMMA EmptyingKeepsCaught ==
    ASSUME Typed, KeepInv, Truncate \/ \E i \in Inodes : Create(i)
    PROVE  KeepInv'
  <1>1. PICK e \in Inodes :
        /\ content' = [content EXCEPT ![e] = <<>>]
        /\ cut \subseteq cut' /\ (e \in cut' \/ e \notin used)
        /\ UNCHANGED <<xrayFile, halfWritten, LastPos, LastInode, pc, file, newPos, buffer, delta,
                       recorded, regrown>>
    <2>1. CASE Truncate
      BY <2>1 DEF Truncate, Typed, TypeOK, passVars, xrayVars
    <2>2. CASE ~Truncate
      BY <2>2 DEF Create, passVars, xrayVars
    <2> QED BY <2>1, <2>2
  <1>2. \A i \in Inodes : content'[i] = IF i = e THEN <<>> ELSE content[i]
    BY <1>1 DEF Typed, TypeOK
  <1>3. LastInode \in Inodes \cup {0} /\ file \in Inodes \cup {0}
        /\ LastInode \in used \cup {0} /\ file \in used \cup {0}
    BY DEF Typed, TypeOK, Linked
  <1>4. \A i \in Inodes : i \notin cut' /\ i \in used => i \notin cut /\ content'[i] = content[i]
    BY <1>1, <1>2
  <1>5. HalvesCompleted'
    <2> SUFFICES ASSUME NEW i \in Inodes, NEW m \in 1..Len(content'[i]), ~content'[i][m].nl
                 PROVE  IF m < Len(content'[i]) THEN content'[i][m+1].nl
                        ELSE i = xrayFile' /\ halfWritten'
      BY DEF HalvesCompleted
    <2>1. i # e BY <1>2, EndsOfEmpty
    <2>2. content'[i] = content[i] BY <1>2, <2>1
    <2> QED BY <1>1, <2>2 DEF KeepInv, HalvesCompleted
  <1>6. CaughtUp' BY <1>1, <1>3, <1>4 DEF KeepInv, CaughtUp
  <1>7. Counted' = Counted BY <1>1 DEF Counted
  <1>8. pc = "reading" => file \in Inodes BY <1>3 DEF Typed, Linked
  <1>9. CatchingUp'
    BY <1>1, <1>3, <1>4, <1>7, <1>8, ZeroNotInode DEF KeepInv, CatchingUp
  <1> QED BY <1>5, <1>6, <1>9 DEF KeepInv

(* Xray changes its file between two lines only.                           *)
LEMMA MovingKeepsCaught ==
    ASSUME Typed, KeepInv, Rename \/ XrayStops \/ XrayOpens
    PROVE  KeepInv'
  <1>1. /\ UNCHANGED <<content, halfWritten, LastPos, LastInode, pc, file, newPos, buffer, delta,
                       recorded, cut, regrown>>
        /\ xrayFile' = xrayFile \/ ~halfWritten
    BY DEF Rename, XrayStops, XrayOpens, fsVars, xrayVars, passVars
  <1>2. HalvesCompleted' BY <1>1 DEF KeepInv, HalvesCompleted
  <1> QED BY <1>1, <1>2 DEF KeepInv, CaughtUp, CatchingUp, Counted

(* A pass that takes up the old position does so in the same file, which   *)
(* was not emptied, or regrown says that it was.                           *)
LEMMA AdoptKeepsCaught ==
    ASSUME Typed, KeepInv, pc = "opened", Adopt, ~regrown', file \notin cut'
    PROVE  Caught(content[file], LastPos', ToSet(recorded))
  <1>1. /\ LastPos' = StartPos(file, Len(content[file]))
        /\ LastPos' = 0 \/ cut' = cut
        /\ ~regrown /\ (file \notin cut \/ ~(LastPos' > 0))
    BY DEF Adopt
  <1>2. file \in Inodes /\ file # 0 /\ Len(content[file]) \in Nat /\ LastPos \in Nat
    BY FileTyped, ZeroNotInode
  <1>3. CASE LastPos' = 0
    <2>1. Whole(content[file], 0) = {} BY DEF Whole
    <2> QED BY <1>2, <1>3, <2>1 DEF Caught
  <1>4. CASE LastPos' # 0
    <2>1. LastPos' = LastPos /\ LastPos > 0 /\ cut' = cut
      BY <1>1, <1>2, <1>4 DEF StartPos
    <2>2. LastInode # 0 BY <2>1 DEF Typed, Linked
    <2>3. file = LastInode BY <1>1, <1>4, <2>2 DEF StartPos
    <2>4. Caught(content[file], LastPos, ToSet(recorded))
      BY <1>1, <2>1, <2>2, <2>3 DEF KeepInv, CaughtUp
    <2> QED BY <2>1, <2>4
  <1> QED BY <1>3, <1>4

LEMMA FailingKeepsCaught ==
    ASSUME Typed, KeepInv, StatFails \/ SeekFails
    PROVE  KeepInv'
  <1>1. /\ pc = "opened" /\ pc' = "waiting"
        /\ UNCHANGED <<content, xrayFile, halfWritten, recorded>>
    BY DEF StatFails, SeekFails, fsVars, xrayVars
  <1>2. HalvesCompleted' /\ CatchingUp'
    BY <1>1 DEF KeepInv, HalvesCompleted, CatchingUp
  <1>3. CASE StatFails
    <2>1. UNCHANGED <<LastPos, LastInode, cut, regrown>> BY <1>3 DEF StatFails
    <2>2. CaughtUp' BY <1>1, <2>1 DEF KeepInv, CaughtUp
    <2> QED BY <1>2, <2>2 DEF KeepInv
  <1>4. CASE SeekFails
    <2>1. Adopt /\ LastInode' = file BY <1>4 DEF SeekFails, Adopt
    <2>2. CaughtUp'
      <3> SUFFICES ASSUME ~regrown', file \notin cut'
                   PROVE  Caught(content[file], LastPos', ToSet(recorded))
        BY <1>1, <2>1 DEF CaughtUp
      <3> QED BY <1>1, <2>1, AdoptKeepsCaught
    <2> QED BY <1>2, <2>2 DEF KeepInv
  <1> QED BY <1>3, <1>4

LEMMA OpeningKeepsCaught == ASSUME Typed, KeepInv, Open \/ Stat PROVE KeepInv'
  <1>1. CASE Open
    <2>1. /\ pc = "waiting" /\ pc' = "opened"
          /\ UNCHANGED <<content, xrayFile, halfWritten, LastPos, LastInode, recorded, cut, regrown>>
      BY <1>1 DEF Open, fsVars, xrayVars, passVars
    <2> QED BY <2>1 DEF KeepInv, HalvesCompleted, CaughtUp, CatchingUp
  <1>2. CASE Stat
    <2>1. /\ pc = "opened" /\ pc' = "reading" /\ buffer' = <<>> /\ delta' = <<>>
          /\ newPos' = LastPos' /\ Adopt
          /\ UNCHANGED <<content, xrayFile, halfWritten, file, recorded>>
      BY <1>2 DEF Stat, fsVars, xrayVars
    <2>2. file \in Inodes /\ file # 0 /\ content[file] \in Seq(Parts)
          /\ Len(content[file]) \in Nat /\ LastPos \in Nat
      BY <2>1, FileTyped, ZeroNotInode
    <2>3. delta = <<>> BY <2>1 DEF Typed, Linked
    <2>4. Counted' = ToSet(recorded) BY <2>1, <2>3, EndsOfEmpty DEF Counted, ToSet
    <2>5. HalvesCompleted' BY <2>1 DEF KeepInv, HalvesCompleted
    <2>6. CaughtUp' BY <2>1 DEF CaughtUp
    <2>7. ASSUME ~regrown', file \notin cut'
          PROVE  Caught(content[file], newPos', ToSet(recorded)) /\ newPos' <= Len(content[file])
      BY <2>1, <2>7, AdoptKeepsCaught DEF Caught
    <2>8. Len(<<>>) = 0 BY EndsOfEmpty
    <2>9. LastPos' \in Nat BY <2>1, AdoptStarts
    <2>10. CatchingUp'
      BY <2>1, <2>4, <2>7, <2>8, <2>9 DEF CatchingUp
    <2> QED BY <2>5, <2>6, <2>10 DEF KeepInv
  <1> QED BY <1>1, <1>2

(* The buffer goes on being the piece behind the position.                 *)
LEMMA FillingKeepsCaught == ASSUME Typed, KeepInv, Fill PROVE KeepInv'
  <1>1. /\ pc = "reading"
        /\ UNCHANGED <<content, xrayFile, halfWritten, LastPos, LastInode, pc, file, newPos, delta,
                       recorded, cut, regrown>>
    BY DEF Fill, fsVars, xrayVars
  <1>2. /\ newPos + Len(buffer') <= Len(content[file])
        /\ \A i \in 1..Len(buffer) : buffer'[i] = buffer[i]
        /\ \A i \in 1..Len(buffer') : i > Len(buffer) => buffer'[i] = content[file][newPos + i]
        /\ Len(buffer) \in Nat
    BY FillEffect, FileTyped, SeqTyped
  <1>3. Counted' = Counted BY <1>1 DEF Counted
  <1>4. CatchingUp'
    <2> SUFFICES ASSUME ~regrown, file \notin cut
                 PROVE  /\ Caught(content[file], newPos, Counted)
                        /\ \A k \in 1..Len(buffer') : buffer'[k] = content[file][newPos + k]
      BY <1>1, <1>2, <1>3 DEF CatchingUp
    <2>1. Caught(content[file], newPos, Counted)
          /\ \A k \in 1..Len(buffer) : buffer[k] = content[file][newPos + k]
      BY <1>1 DEF KeepInv, CatchingUp
    <2>2. ASSUME NEW k \in 1..Len(buffer') PROVE buffer'[k] = content[file][newPos + k]
      <3>1. k \in 1..Len(buffer) \/ k > Len(buffer) BY <1>2
      <3> QED BY <1>2, <2>1, <3>1
    <2> QED BY <2>1, <2>2
  <1>5. HalvesCompleted' BY <1>1 DEF KeepInv, HalvesCompleted
  <1>6. CaughtUp' BY <1>1 DEF CaughtUp
  <1> QED BY <1>4, <1>5, <1>6 DEF KeepInv

(* The whole line that ends where a line was read is the one that was      *)
(* parsed: a half line in front of it has its other half right behind it.  *)
LEMMA ReadingKeepsCaught == ASSUME Typed, KeepInv, ReadLine PROVE KeepInv'
  <1> DEFINE f == content[file]
             b == buffer
  <1>1. PICK n \in 1..Len(b) : LineRead(n) BY ReadLineEffect
  <1>2. /\ pc = "reading"
        /\ UNCHANGED <<content, xrayFile, halfWritten, LastPos, LastInode, pc, file, recorded, cut,
                       regrown>>
    BY DEF ReadLine, fsVars, xrayVars
  <1>3. /\ b[n].nl /\ \A i \in 1..n-1 : ~b[i].nl
        /\ newPos' = newPos + n
        /\ delta' = IF n = 2 THEN delta \o <<b[n].line>> ELSE delta
        /\ Len(buffer') = Len(b) - n
        /\ \A i \in 1..Len(buffer') : n + i \in 1..Len(b) /\ buffer'[i] = b[n + i]
    BY <1>1 DEF LineRead
  <1>4. /\ file \in Inodes /\ f \in Seq(Parts) /\ Len(f) \in Nat /\ newPos \in Nat
        /\ b \in Seq(Parts) /\ Len(b) \in Nat /\ b[n].line \in 1..MaxLines
        /\ delta \in Seq(1..MaxLines)
    BY <1>2, FileTyped, SeqTyped DEF Typed, TypeOK
  <1>5. Counted \subseteq Counted' /\ (n = 2 => b[n].line \in Counted')
    <2>1. CASE n = 2
      <3>1. delta' = delta \o <<b[n].line>> BY <1>3, <2>1
      <3>2. <<b[n].line>> \in Seq(1..MaxLines) /\ ToSet(<<b[n].line>>) = {b[n].line}
        BY <1>4, OneLine
      <3>3. ToSet(delta') = ToSet(delta) \cup {b[n].line}
        BY <1>4, <3>1, <3>2, JoinedLines
      <3> QED BY <1>2, <3>3 DEF Counted
    <2>2. CASE n # 2
      <3>1. delta' = delta BY <1>3, <2>2
      <3> QED BY <1>2, <2>2, <3>1 DEF Counted
    <2> QED BY <2>1, <2>2
  <1>6. \A m \in 1..Len(f) : m < Len(f) /\ ~f[m].nl => f[m+1].nl
    BY <1>4 DEF KeepInv, HalvesCompleted
  <1>7. CatchingUp'
    <2> SUFFICES ASSUME ~regrown, file \notin cut
                 PROVE  /\ Caught(f, newPos', Counted')
                        /\ newPos' + Len(buffer') <= Len(f)
                        /\ \A k \in 1..Len(buffer') : buffer'[k] = f[newPos' + k]
      BY <1>2 DEF CatchingUp
    <2>1. /\ Caught(f, newPos, Counted)
          /\ newPos + Len(b) <= Len(f)
          /\ \A k \in 1..Len(b) : b[k] = f[newPos + k]
      BY <1>2 DEF KeepInv, CatchingUp
    <2> HIDE DEF f, b
    <2>2. newPos' + Len(buffer') <= Len(f) /\ newPos' <= Len(f) /\ newPos' \in Nat
      BY <1>3, <1>4, <2>1
    <2>3. ASSUME NEW k \in 1..Len(buffer') PROVE buffer'[k] = f[newPos' + k]
      <3>1. n + k \in 1..Len(b) /\ buffer'[k] = b[n + k] BY <1>3
      <3>2. newPos' + k = newPos + (n + k) BY <1>3, <1>4
      <3> QED BY <2>1, <3>1, <3>2
    <2>4. f[newPos'].nl BY <1>3, <2>1
    <2>5. ASSUME NEW l \in Whole(f, newPos') PROVE l \in Counted'
      <3>1. PICK m \in 1..newPos' :
              /\ l = f[m].line
              /\ m <= Len(f) /\ f[m].nl /\ m > 1 /\ f[m-1] = First(f[m].line)
        BY <2>5 DEF Whole
      <3>2. ~f[m-1].nl BY <3>1 DEF First
      <3>3. CASE m <= newPos
        <4>1. m \in 1..newPos BY <1>4, <3>1, <3>3
        <4>2. l \in Whole(f, newPos) BY <3>1, <4>1 DEF Whole
        <4> QED BY <1>5, <2>1, <4>2 DEF Caught
      <3>4. CASE m > newPos
        <4> DEFINE k == m - newPos
        <4>1. k \in 1..n /\ m = newPos + k /\ k \in 1..Len(b)
          BY <1>3, <1>4, <3>1, <3>4
        <4> HIDE DEF k
        <4>2. b[k] = f[m] BY <2>1, <4>1
        <4>3. k = n BY <1>3, <1>4, <3>1, <4>1, <4>2
        <4>4. n # 1
          <5> SUFFICES ASSUME n = 1 PROVE FALSE
            OBVIOUS
          <5>1. m - 1 = newPos /\ newPos # 0 BY <1>4, <3>1, <4>1, <4>3
          <5> QED BY <2>1, <3>2, <5>1 DEF Caught
        <4>5. n <= 2
          <5> SUFFICES ASSUME n > 2 PROVE FALSE
            BY <1>4
          <5>1. 1 \in 1..n-1 /\ 2 \in 1..n-1 /\ 1 \in 1..Len(b) /\ 2 \in 1..Len(b)
            BY <1>4
          <5>2. ~b[1].nl /\ ~b[2].nl BY <1>3, <5>1
          <5>3. ~f[newPos + 1].nl /\ ~f[newPos + 2].nl BY <2>1, <5>1, <5>2
          <5>4. newPos + 1 \in 1..Len(f) /\ newPos + 1 < Len(f) /\ (newPos + 1) + 1 = newPos + 2
            BY <1>4, <2>1, <5>1
          <5> QED BY <1>6, <5>3, <5>4
        <4>6. n = 2 BY <1>4, <4>4, <4>5
        <4> QED BY <1>5, <3>1, <4>2, <4>3, <4>6
      <3> QED BY <1>4, <3>1, <3>3, <3>4
    <2> QED BY <2>2, <2>3, <2>4, <2>5 DEF Caught
  <1>8. HalvesCompleted' BY <1>2 DEF KeepInv, HalvesCompleted
  <1>9. CaughtUp' BY <1>2 DEF CaughtUp
  <1> QED BY <1>7, <1>8, <1>9 DEF KeepInv

(* The position that a pass leaves is the one it came to.                  *)
LEMMA FinishingKeepsCaught == ASSUME Typed, KeepInv, Finish PROVE KeepInv'
  <1>1. /\ pc = "reading" /\ pc' = "waiting"
        /\ recorded' = recorded \o delta /\ LastPos' = newPos
        /\ UNCHANGED <<content, xrayFile, halfWritten, LastInode, cut, regrown>>
    BY DEF Finish, EndPos, fsVars, xrayVars
  <1>2. recorded \in Seq(1..MaxLines) /\ delta \in Seq(1..MaxLines) /\ LastInode = file
    BY <1>1 DEF Typed, TypeOK, Linked
  <1>3. ToSet(recorded') = Counted BY <1>1, <1>2, JoinedLines DEF Counted
  <1>4. CaughtUp' BY <1>1, <1>2, <1>3 DEF KeepInv, CatchingUp, CaughtUp
  <1>5. CatchingUp' /\ HalvesCompleted' BY <1>1 DEF KeepInv, CatchingUp, HalvesCompleted
  <1> QED BY <1>4, <1>5 DEF KeepInv

LEMMA KeepStutters == ASSUME KeepInv, UNCHANGED vars PROVE KeepInv'
  BY DEF vars, fsVars, xrayVars, passVars, KeepInv, HalvesCompleted, CaughtUp, CatchingUp, Counted

LEMMA KeepInvKept == ASSUME Typed, KeepInv, [Next]_vars PROVE Typed' /\ KeepInv'
  <1>1. Typed' BY TypedKept
  <1>2. CASE XrayWritesHalf \/ XrayWritesRest BY <1>1, <1>2, GrowthKeepsCaught
  <1>3. CASE Truncate \/ \E i \in Inodes : Create(i) BY <1>1, <1>3, EmptyingKeepsCaught
  <1>4. CASE Rename \/ XrayStops \/ XrayOpens BY <1>1, <1>4, MovingKeepsCaught
  <1>5. CASE Open \/ Stat BY <1>1, <1>5, OpeningKeepsCaught
  <1>6. CASE Fill BY <1>1, <1>6, FillingKeepsCaught
  <1>7. CASE ReadLine BY <1>1, <1>7, ReadingKeepsCaught
  <1>8. CASE EndOfFile \/ ReadError
    BY <1>1, <1>8, FinishingKeepsCaught DEF EndOfFile, ReadError
  <1>10. CASE StatFails \/ SeekFails BY <1>1, <1>10, FailingKeepsCaught
  <1>9. CASE UNCHANGED vars BY <1>1, <1>9, KeepStutters
  <1> QED BY <1>2, <1>3, <1>4, <1>5, <1>6, <1>7, <1>8, <1>9, <1>10
          DEF Next, Environment, Parser

LEMMA InitKeepInv == Init => Typed /\ KeepInv
  <1> SUFFICES ASSUME Init PROVE KeepInv
    BY InitTyped
  <1>1. (\A i \in Inodes : content[i] = <<>>) /\ pc = "waiting" /\ LastInode = 0 BY DEF Init
  <1>2. HalvesCompleted BY <1>1, EndsOfEmpty DEF HalvesCompleted
  <1> QED BY <1>1, <1>2 DEF KeepInv, CaughtUp, CatchingUp

(* Rotation, truncation and part lines cost no line of the file that is    *)
(* there, unless an emptied file grew up to the old position unseen.       *)
THEOREM SkipsNothing == Spec => []NothingSkippedUnlessRegrown
  <1>1. ASSUME Typed, KeepInv PROVE NothingSkippedUnlessRegrown
    <2> SUFFICES ASSUME ~regrown, path \in cut => LastPos > Len(content[path]),
                        pc = "waiting", path # 0, path = LastInode, LastPos <= Len(content[path])
                 PROVE  WholeLines(path, LastPos) \subseteq ToSet(recorded)
      BY DEF NothingSkippedUnlessRegrown, NothingSkipped
    <2>1. Len(content[path]) \in Nat /\ LastPos \in Nat BY <1>1, FileTyped
    <2>2. LastInode \notin cut BY <2>1
    <2>3. Whole(content[path], LastPos) \subseteq ToSet(recorded)
      BY <1>1, <2>2 DEF KeepInv, CaughtUp, Caught
    <2> QED BY <2>3 DEF Whole, WholeLines
  <1>2. Typed /\ KeepInv => NothingSkippedUnlessRegrown BY <1>1
  <1>3. Typed /\ KeepInv /\ [Next]_vars => (Typed /\ KeepInv)' BY KeepInvKept
  <1> QED BY <1>2, <1>3, InitKeepInv, PTL DEF Spec
====
