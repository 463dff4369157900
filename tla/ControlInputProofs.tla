---------------------------- MODULE ControlInputProofs ----------------------------
(*****************************************************************************)
(* Proofs about the command file, for any lines, any number of writes and    *)
(* any way of writing, emptying and reading: while the file only grows no    *)
(* line is left out, none is read too often, and only a line that was        *)
(* written in parts is executed in parts.  And about the running flag, once  *)
(* start() and the workers have ended.                                       *)
(*                                                                           *)
(* The first argument is about every position of the file: how often it is   *)
(* read, given where the listener is, and whether what stands before it on   *)
(* its line was written together with it.                                    *)
(*****************************************************************************)
EXTENDS ControlInput, SequenceTheorems, WellFoundedInduction, TLAPS

Text    == Seq(STRING \cup {NL})
Reading == pc["file"] = "read"
States  == {"none", "new", "added", "loop", "read", "stopping", "last", "ended"}

-------------------------------------------------------------------------------
(* The invariant *)

\* The line that position p is on, or would be on, starts at s.
Starts(s, p) ==
    /\ s \in 1 .. p
    /\ s = 1 \/ file[s - 1] = NL
    /\ \A q \in s .. p - 1 : file[q] # NL

\* Only a line that was written in parts goes on over an offset.
Joined(c) ==
    c \in 1 .. Len(file) - 1 /\ file[c] # NL /\ file[c + 1] # NL =>
        \E s \in split : Starts(s, c + 1)

\* The file ends with a whole line, or with the first part of one whose rest is
\* still to be written.
WriterSound ==
    /\ file \in Text /\ rest \in Text
    /\ writes \in 0 .. MaxWrites
    /\ Len(file) + Len(rest) <= writes * (Longest + 1)
    /\ rest = <<>> => file = <<>> \/ file[Len(file)] = NL
    /\ rest # <<>> => /\ rest[Len(rest)] = NL
                      /\ \A i \in 1 .. Len(rest) - 1 : rest[i] # NL
    /\ rest \notin {<<>>, <<NL>>} => \E s \in split : Starts(s, Len(file) + 1)

\* What has been read for good: once, or a second time if it was written while
\* the listener was reading; and what may still be read, but only once more.
Seen(p) ==
    /\ file[p] = NL \/ count[p] > 0
    /\ count[p] <= IF p \in late THEN 2 ELSE 1
Once(p) == count[p] = 0 \/ (count[p] = 1 /\ p \in late)

\* The listener is at c; z is where it will begin the next time.
Followed(c, z) ==
    \A p \in Positions :
        /\ p <= c /\ p <= z => Seen(p)
        /\ ~(p <= c /\ p <= z) => Once(p)
        /\ p > c /\ p > z => count[p] = 0

ReaderSound ==
    ~emptied =>
        /\ cut \subseteq split
        /\ offset \in 0 .. Len(file) /\ Joined(offset)
        /\ ~Reading => Followed(offset, Len(file))
        /\ Reading => /\ cursor \in offset .. Len(file) /\ Joined(cursor)
                      /\ size \in offset .. Len(file) /\ Joined(size)
                      /\ \A p \in size + 1 .. Len(file) : p \in late
                      /\ Followed(cursor, size)

\* The listener does not read before it has been started.
StartSound ==
    /\ pc \in [Workers -> States]
    /\ starter \in {"console", "file"} => pc["file"] = "none"

CountersSound ==
    /\ offset \in Nat /\ size \in Nat /\ cursor \in Nat
    /\ count \in [Positions -> Nat]
    /\ emptied \in BOOLEAN

ControlInv == WriterSound /\ ReaderSound /\ StartSound /\ CountersSound

-------------------------------------------------------------------------------
(* Lines and positions *)

LEMMA Lines ==
    /\ Longest \in Nat /\ MaxWrites \in Nat \ {0}
    /\ \A line \in WrittenLines :
          /\ line \in Seq(STRING) /\ Len(line) \in 0 .. Longest
          /\ \A i \in 1 .. Len(line) : line[i] # NL
<1>. DEFINE Lengths == {Len(line) : line \in WrittenLines}
<1>1. PICK line \in WrittenLines : \A other \in WrittenLines : Len(other) <= Len(line)
  BY LinesAssumption
<1>2. \A l \in WrittenLines : l \in Seq(STRING) /\ Len(l) \in Nat /\ DOMAIN l = 1 .. Len(l)
  BY LinesAssumption
<1>3. Longest = Max(Lengths)
  BY DEF Longest
<1>4. Len(line) \in Lengths /\ \A n \in Lengths : Len(line) >= n
  BY <1>1, <1>2
<1>5. Max(Lengths) \in Lengths /\ \A n \in Lengths : Max(Lengths) >= n
  BY <1>4 DEF Max
<1>6. Longest \in Lengths /\ \A n \in Lengths : Longest >= n
  BY <1>3, <1>5
<1>7. \A l \in WrittenLines : Len(l) \in Lengths
  OBVIOUS
<1>8. Longest \in Nat
  BY <1>2, <1>6
<1>. HIDE DEF Lengths
<1>. QED
  BY <1>2, <1>6, <1>7, <1>8, LinesAssumption

\* There is room for what the bound on the writes allows.
LEMMA Products ==
    ASSUME NEW w \in Nat, NEW m \in Nat, w <= m, NEW k \in Nat
    PROVE  w * k \in Nat /\ m * k \in Nat /\ w * k <= m * k /\ (w + 1) * k = w * k + k
  OBVIOUS

LEMMA Room ==
    ASSUME WriterSound
    PROVE  Len(file) \in Nat /\ 1 .. Len(file) \subseteq Positions /\ Positions \subseteq Nat
<1>1. /\ Len(file) \in Nat /\ Len(rest) \in Nat
      /\ Len(file) + Len(rest) <= writes * (Longest + 1) /\ writes \in Nat /\ writes <= MaxWrites
  BY Lines DEF WriterSound, Text
<1>. DEFINE a == writes * (Longest + 1)
            b == MaxWrites * (Longest + 1)
<1>2. a \in Nat /\ b \in Nat /\ a <= b
  BY <1>1, Lines, Products
<1>3. Positions = 1 .. b
  BY DEF Positions
<1>4. Len(file) + Len(rest) <= a
  BY <1>1
<1>. HIDE DEF a, b
<1>. QED
  BY <1>1, <1>2, <1>3, <1>4

\* A position is on one line.
LEMMA LineStartIs ==
    ASSUME NEW p \in Nat, NEW s, Starts(s, p)
    PROVE  LineStart(p) = s
<1>1. s \in 1 .. p /\ (s = 1 \/ file[s - 1] = NL) /\ \A q \in s .. p - 1 : file[q] # NL
  BY DEF Starts
<1>2. ASSUME NEW r \in 1 .. p, r = 1 \/ file[r - 1] = NL, \A q \in r .. p - 1 : file[q] # NL
      PROVE  r = s
  <2>1. ~(r < s)
    <3>1. r < s => s - 1 \in r .. p - 1 /\ s # 1
      BY <1>1
    <3>. QED
      BY <1>1, <1>2, <3>1
  <2>2. ~(s < r)
    <3>1. s < r => r - 1 \in s .. p - 1 /\ r # 1
      BY <1>1
    <3>. QED
      BY <1>1, <1>2, <3>1
  <2>. QED
    BY <1>1, <2>1, <2>2
<1>. QED
  BY <1>1, <1>2 DEF LineStart

\* The line under the cursor has an end.
LEMMA LineEndIs ==
    ASSUME file \in Text, cursor \in Nat, cursor < Len(file)
    PROVE  /\ LineEnd \in cursor + 1 .. Len(file) + 1
           /\ LineEnd = Len(file) + 1 \/ file[LineEnd] = NL
           /\ \A p \in cursor + 1 .. LineEnd - 1 : file[p] # NL
<1>. DEFINE Ends == {e \in cursor + 1 .. Len(file) + 1 : e = Len(file) + 1 \/ file[e] = NL}
            less == {p \in Nat \X Nat : p[1] < p[2]}
<1>1. Len(file) \in Nat /\ Ends \subseteq Nat /\ Len(file) + 1 \in Ends
  BY DEF Text
<1>2. IsWellFoundedOn(less, Nat)
  BY NatLessThanWellFounded DEF OpToRel
<1>3. \E e \in Ends : \A y \in Ends : <<y, e>> \notin less
  <2>1. Ends # {}
    BY <1>1
  <2>. HIDE DEF Ends, less
  <2>. QED
    BY <1>1, <1>2, <2>1, WFMin
<1>4. PICK e \in Ends : \A y \in Ends : <<y, e>> \notin less
  BY <1>3
<1>5. ASSUME NEW p \in cursor + 1 .. e - 1 PROVE file[p] # NL
  <2>1. p \in Nat /\ e \in Nat /\ p < e /\ p \in cursor + 1 .. Len(file) + 1
    BY <1>1, <1>4
  <2>2. <<p, e>> \in less
    BY <2>1
  <2>. QED
    BY <1>4, <2>1, <2>2
<1>6. /\ e \in cursor + 1 .. Len(file) + 1
      /\ e = Len(file) + 1 \/ file[e] = NL
      /\ \A p \in cursor + 1 .. e - 1 : file[p] # NL
  BY <1>4, <1>5
<1>. HIDE DEF Ends, less
<1>. QED
  BY <1>6 DEF LineEnd

-------------------------------------------------------------------------------
(* The file grows *)

\* What stands in the file stays.
LEMMA Growth ==
    ASSUME file \in Text, NEW items \in Text, file' = file \o items
    PROVE  /\ file' \in Text /\ Len(file') = Len(file) + Len(items)
           /\ Len(file) \in Nat /\ Len(items) \in Nat
           /\ \A p \in 1 .. Len(file) : file'[p] = file[p]
           /\ \A i \in 1 .. Len(items) : file'[Len(file) + i] = items[i]
<1>1. /\ file \o items \in Seq(STRING \cup {NL})
      /\ Len(file \o items) = Len(file) + Len(items)
      /\ \A i \in 1 .. Len(file) + Len(items) :
            (file \o items)[i] = IF i <= Len(file) THEN file[i] ELSE items[i - Len(file)]
  BY ConcatProperties DEF Text
<1>2. Len(file) \in Nat /\ Len(items) \in Nat
  BY DEF Text
<1>. QED
  BY <1>1, <1>2 DEF Text

LEMMA StartsGrow ==
    ASSUME Len(file) \in Nat, \A p \in 1 .. Len(file) : file'[p] = file[p],
           NEW p \in 1 .. Len(file) + 1, NEW s, Starts(s, p)
    PROVE  Starts(s, p)'
<1>1. s \in 1 .. p /\ (s # 1 => s - 1 \in 1 .. Len(file))
  BY DEF Starts
<1>2. s .. p - 1 \subseteq 1 .. Len(file)
  BY <1>1
<1>. QED
  BY <1>1, <1>2 DEF Starts

\* The listener, at whatever place, is not disturbed, if what follows a line
\* without an end is its end or the rest of a line written in parts.
LEMMA GrowReader ==
    ASSUME WriterSound, ReaderSound, CountersSound,
           NEW items \in Text, Grow(items), items # <<>>, split \subseteq split',
           UNCHANGED <<pc, offset, size, cursor, cut, count, emptied>>,
           Len(file) # 0 /\ file[Len(file)] # NL /\ items[1] # NL =>
               \E s \in split : Starts(s, Len(file) + 1)
    PROVE  ReaderSound'
<1>1. /\ file' \in Text /\ Len(file') = Len(file) + Len(items)
      /\ Len(file) \in Nat /\ Len(items) \in Nat \ {0}
      /\ \A p \in 1 .. Len(file) : file'[p] = file[p]
      /\ file'[Len(file) + 1] = items[1]
  <2>1. file \in Text /\ file' = file \o items /\ Len(items) # 0
    BY DEF WriterSound, Grow, Text
  <2>2. 1 \in 1 .. Len(items)
    BY <2>1 DEF Text
  <2>. QED
    BY <2>1, <2>2, Growth
<1>2. /\ late \subseteq late'
      /\ Reading => \A p \in Len(file) + 1 .. Len(file') : p \in late'
  BY DEF Grow, Reading
<1>3. ASSUME NEW c \in 0 .. Len(file), Joined(c) PROVE Joined(c)'
  <2>. SUFFICES ASSUME c \in 1 .. Len(file') - 1, file'[c] # NL, file'[c + 1] # NL
                PROVE  \E s \in split' : Starts(s, c + 1)'
    BY <1>1 DEF Joined
  <2>1. \E s \in split : Starts(s, c + 1)
    <3>1. CASE c < Len(file)
      <4>1. c \in 1 .. Len(file) - 1 /\ c + 1 \in 1 .. Len(file)
        BY <1>1, <3>1
      <4>2. file[c] # NL /\ file[c + 1] # NL
        BY <1>1, <4>1
      <4>. QED
        BY <1>3, <4>1, <4>2 DEF Joined
    <3>2. CASE c = Len(file)
      BY <1>1, <3>2
    <3>. QED
      BY <1>1, <3>1, <3>2
  <2>2. c + 1 \in 1 .. Len(file) + 1
    BY <1>1
  <2>. QED
    BY <1>1, <2>1, <2>2, StartsGrow
<1>4. ASSUME NEW c \in 0 .. Len(file), NEW z \in 0 .. Len(file), Followed(c, z)
      PROVE  Followed(c, z)'
  <2>. SUFFICES ASSUME NEW p \in Positions
                PROVE  /\ p <= c /\ p <= z => Seen(p)'
                       /\ ~(p <= c /\ p <= z) => Once(p)'
                       /\ p > c /\ p > z => count'[p] = 0
    BY DEF Followed, Positions
  <2>1. count'[p] = count[p] /\ (p \in late => p \in late') /\ p \in Nat
    BY <1>2, Room
  <2>2. CASE p <= c /\ p <= z
    <3>1. p \in 1 .. Len(file) /\ Seen(p)
      BY <1>1, <1>4, <2>1, <2>2 DEF Followed, Positions
    <3>2. file'[p] = file[p] /\ count[p] \in Nat
      BY <1>1, <3>1 DEF CountersSound
    <3>. QED
      BY <2>1, <2>2, <3>1, <3>2 DEF Seen
  <2>3. CASE ~(p <= c /\ p <= z)
    BY <1>4, <2>1, <2>3 DEF Followed, Once
  <2>. QED
    BY <2>2, <2>3
<1>. SUFFICES ASSUME ~emptied PROVE ReaderSound'
  BY DEF ReaderSound
<1>5. /\ cut \subseteq split /\ offset \in 0 .. Len(file) /\ Joined(offset)
      /\ ~Reading => Followed(offset, Len(file))
      /\ Reading => /\ cursor \in offset .. Len(file) /\ Joined(cursor)
                    /\ size \in offset .. Len(file) /\ Joined(size)
                    /\ \A p \in size + 1 .. Len(file) : p \in late
                    /\ Followed(cursor, size)
  BY DEF ReaderSound
<1>6. Joined(offset)'
  BY <1>3, <1>5
<1>7. Reading => Joined(cursor)' /\ Joined(size)'
  BY <1>1, <1>3, <1>5
<1>8. ~Reading => Followed(offset, Len(file))'
  <2>. SUFFICES ASSUME ~Reading, NEW p \in Positions
                PROVE  /\ p <= offset /\ p <= Len(file') => Seen(p)'
                       /\ ~(p <= offset /\ p <= Len(file')) => Once(p)'
                       /\ p > offset /\ p > Len(file') => count'[p] = 0
    BY DEF Followed, Positions
  <2>1. PICK c \in 0 .. Len(file), z \in 0 .. Len(file) : c = offset /\ z = Len(file)
    BY <1>1, <1>5
  <2>2. Followed(c, z)'
    BY <1>4, <1>5, <2>1
  <2>3. /\ p <= c /\ p <= z => Seen(p)'
        /\ ~(p <= c /\ p <= z) => Once(p)'
        /\ p > c /\ p > z => count'[p] = 0
    BY <2>2 DEF Followed, Positions
  <2>4. p \in Nat
    BY Room
  <2>. QED
    BY <1>1, <1>5, <2>1, <2>3, <2>4
<1>9. Reading => Followed(cursor, size)'
  <2>. SUFFICES ASSUME Reading PROVE Followed(cursor, size)'
    OBVIOUS
  <2>1. PICK c \in 0 .. Len(file), z \in 0 .. Len(file) : c = cursor /\ z = size
    BY <1>1, <1>5
  <2>2. Followed(c, z)'
    BY <1>4, <1>5, <2>1
  <2>. QED
    BY <2>1, <2>2 DEF Followed
<1>10. Reading => \A p \in size' + 1 .. Len(file') : p \in late'
  <2>. SUFFICES ASSUME Reading, NEW p \in size + 1 .. Len(file') PROVE p \in late'
    OBVIOUS
  <2>1. CASE p <= Len(file)
    BY <1>1, <1>2, <1>5, <2>1
  <2>2. CASE p > Len(file)
    BY <1>1, <1>2, <1>5, <2>2
  <2>. QED
    BY <1>1, <1>5, <2>1, <2>2
<1>11. /\ cut' \subseteq split' /\ offset' \in 0 .. Len(file')
       /\ Reading => cursor' \in offset' .. Len(file') /\ size' \in offset' .. Len(file')
       /\ Reading' = Reading
  BY <1>1, <1>5 DEF Reading
<1>. QED
  BY <1>6, <1>7, <1>8, <1>9, <1>10, <1>11 DEF ReaderSound

-------------------------------------------------------------------------------
(* The writers *)

\* In a line with its end the end is last.
LEMMA WholeLine ==
    ASSUME NEW line \in WrittenLines
    PROVE  /\ line \o <<NL>> \in Text /\ Len(line \o <<NL>>) = Len(line) + 1
           /\ \A i \in 1 .. Len(line) + 1 :
                 (line \o <<NL>>)[i] = NL <=> i = Len(line) + 1
<1>. DEFINE text == line \o <<NL>>
            S    == STRING \cup {NL}
<1>1. /\ line \in Seq(S) /\ <<NL>> \in Seq(S) /\ Len(<<NL>>) = 1 /\ <<NL>>[1] = NL
      /\ Len(line) \in Nat
      /\ \A i \in 1 .. Len(line) : line[i] # NL
  <2>1. line \in Seq(STRING) /\ Len(line) \in Nat
        /\ \A i \in 1 .. Len(line) : line[i] # NL
    BY Lines
  <2>2. line \in Seq(S)
    BY <2>1
  <2>. QED
    BY <2>1, <2>2
<1>2. /\ text \in Seq(S) /\ Len(text) = Len(line) + 1
      /\ \A i \in 1 .. Len(line) + 1 :
            text[i] = IF i <= Len(line) THEN line[i] ELSE <<NL>>[i - Len(line)]
  BY <1>1, ConcatProperties
<1>3. ASSUME NEW i \in 1 .. Len(line) + 1
      PROVE  text[i] = NL <=> i = Len(line) + 1
  <2>1. CASE i <= Len(line)
    <3>1. text[i] = line[i] /\ i \in 1 .. Len(line)
      BY <1>1, <1>2, <2>1
    <3>. QED
      BY <1>1, <3>1
  <2>2. CASE i = Len(line) + 1
    BY <1>1, <1>2, <2>2
  <2>. QED
    BY <1>1, <2>1, <2>2
<1>. QED
  BY <1>2, <1>3 DEF Text

\* The two parts of a line with its end: in each the end of the line is last.
AreParts(line, k, items, left) ==
    /\ items \in Text /\ Len(items) = k /\ left \in Text
    /\ Len(line) \in 0 .. Longest /\ k <= Len(line) + 1 /\ Len(left) = Len(line) + 1 - k
    /\ \A i \in 1 .. k : items[i] = NL <=> i = Len(line) + 1
    /\ \A i \in 1 .. Len(line) + 1 - k : left[i] = NL <=> k + i = Len(line) + 1

LEMMA Parts ==
    ASSUME NEW line \in WrittenLines, NEW k \in Nat \ {0}, k <= Len(line \o <<NL>>),
           NEW items, items = SubSeq(line \o <<NL>>, 1, k),
           NEW left, left = SubSeq(line \o <<NL>>, k + 1, Len(line \o <<NL>>))
    PROVE  AreParts(line, k, items, left)
<1>. DEFINE text == line \o <<NL>>
            S    == STRING \cup {NL}
<1>1. /\ Len(line) \in 0 .. Longest /\ Len(line) \in Nat
      /\ text \in Seq(S) /\ Len(text) = Len(line) + 1
  BY Lines, WholeLine DEF Text
<1>2. Len(text) = Len(line) + 1
  BY <1>1
<1>3. \A i \in 1 .. Len(line) + 1 : text[i] \in S /\ (text[i] = NL <=> i = Len(line) + 1)
  BY <1>1, WholeLine
<1>4. k <= Len(line) + 1 /\ items = SubSeq(text, 1, k) /\ left = SubSeq(text, k + 1, Len(line) + 1)
  BY <1>2
<1>. HIDE DEF text, S
<1>5. /\ items \in Seq(S) /\ Len(items) = k
      /\ \A i \in 1 .. k : items[i] = text[i]
  <2>1. \A i \in 1 .. k : text[i] \in S
    BY <1>1, <1>3, <1>4
  <2>2. /\ SubSeq(text, 1, k) \in Seq(S)
        /\ Len(SubSeq(text, 1, k)) = IF 1 <= k THEN k - 1 + 1 ELSE 0
        /\ \A i \in 1 .. k - 1 + 1 : SubSeq(text, 1, k)[i] = text[1 + i - 1]
    BY <2>1, SubSeqProperties
  <2>. QED
    BY <1>4, <2>2
<1>6. /\ left \in Seq(S) /\ Len(left) = Len(line) + 1 - k
      /\ \A i \in 1 .. Len(line) + 1 - k : left[i] = text[k + i]
  <2>1. PICK n \in Nat, m \in Nat : n = Len(line) + 1 /\ m = k + 1
    BY <1>1
  <2>2. k <= n /\ \A i \in m .. n : text[i] \in S
    BY <1>1, <1>3, <1>4, <2>1
  <2>3. /\ SubSeq(text, m, n) \in Seq(S)
        /\ Len(SubSeq(text, m, n)) = IF m <= n THEN n - m + 1 ELSE 0
        /\ \A i \in 1 .. n - m + 1 : SubSeq(text, m, n)[i] = text[m + i - 1]
    BY <2>2, SubSeqProperties
  <2>4. left = SubSeq(text, m, n)
    BY <1>4, <2>1
  <2>5. left \in Seq(S)
    BY <2>3, <2>4
  <2>6. n - m + 1 = n - k /\ (IF m <= n THEN n - m + 1 ELSE 0) = n - k
    BY <2>1, <2>2
  <2>7. Len(left) = n - k /\ \A i \in 1 .. n - k : left[i] = text[m + i - 1] /\ m + i - 1 = k + i
    <3>1. \A i \in Nat : m + i - 1 = k + i
      BY <2>1
    <3>2. 1 .. n - k \subseteq Nat
      BY <2>1
    <3>. QED
      BY <2>3, <2>4, <2>6, <3>1, <3>2
  <2>8. \A i \in 1 .. n - k : left[i] = text[k + i]
    BY <2>7
  <2>9. Len(line) + 1 - k = n - k
    BY <2>1
  <2>. QED
    BY <2>5, <2>7, <2>8, <2>9
<1>7. \A i \in 1 .. k : items[i] = NL <=> i = Len(line) + 1
  BY <1>1, <1>3, <1>4, <1>5
<1>8. \A i \in 1 .. Len(line) + 1 - k : left[i] = NL <=> k + i = Len(line) + 1
  <2>. SUFFICES ASSUME NEW i \in 1 .. Len(line) + 1 - k
                PROVE  left[i] = NL <=> k + i = Len(line) + 1
    OBVIOUS
  <2>1. left[i] = text[k + i] /\ k + i \in 1 .. Len(line) + 1
    BY <1>1, <1>4, <1>6
  <2>. QED
    BY <1>3, <2>1
<1>9. items \in Text /\ left \in Text
  BY <1>5, <1>6 DEF Text, S
<1>. QED
  BY <1>1, <1>4, <1>5, <1>6, <1>7, <1>8, <1>9 DEF AreParts

\* A sequence that is neither empty nor one end of line has two items.
LEMMA LongRest ==
    ASSUME NEW r \in Text, r # <<>>, r[Len(r)] = NL
    PROVE  Len(r) \in Nat \ {0} /\ (r # <<NL>> => Len(r) > 1)
<1>1. Len(r) \in Nat \ {0} /\ DOMAIN r = 1 .. Len(r)
  BY DEF Text
<1>2. ASSUME Len(r) = 1 PROVE r = <<NL>>
  <2>1. r = [i \in 1 .. 1 |-> r[i]]
    BY <1>2 DEF Text
  <2>2. r[1] = NL
    BY <1>2
  <2>. QED
    BY <2>1, <2>2
<1>. QED
  BY <1>1, <1>2

LEMMA WriteLineKeeps ==
    ASSUME ControlInv, WriteLine
    PROVE  ControlInv'
<1>1. PICK line \in WrittenLines, k \in 1 .. Longest + 1 :
        /\ k <= Len(line \o <<NL>>)
        /\ Grow(SubSeq(line \o <<NL>>, 1, k))
        /\ rest' = SubSeq(line \o <<NL>>, k + 1, Len(line \o <<NL>>))
        /\ split' = IF k < Len(line) THEN split \cup {Len(file) + 1} ELSE split
  BY DEF WriteLine
<1>. DEFINE items == SubSeq(line \o <<NL>>, 1, k)
<1>2. /\ rest = <<>> /\ writes < MaxWrites /\ writes' = writes + 1
      /\ UNCHANGED <<pc, starter, offset, size, cursor, cut, count, emptied>>
  BY DEF WriteLine, workerVars, readerVars
<1>3. k \in Nat \ {0}
  BY Lines
<1>4. /\ items \in Text /\ Len(items) = k /\ rest' \in Text
      /\ Len(line) \in 0 .. Longest /\ k <= Len(line) + 1 /\ Len(rest') = Len(line) + 1 - k
      /\ \A i \in 1 .. k : items[i] = NL <=> i = Len(line) + 1
      /\ \A i \in 1 .. Len(line) + 1 - k : rest'[i] = NL <=> k + i = Len(line) + 1
  <2>1. PICK left : left = rest'
    OBVIOUS
  <2>2. PICK start : start = items
    OBVIOUS
  <2>3. /\ k <= Len(line \o <<NL>>) /\ start = SubSeq(line \o <<NL>>, 1, k)
        /\ left = SubSeq(line \o <<NL>>, k + 1, Len(line \o <<NL>>))
    BY <1>1, <2>1, <2>2
  <2>. HIDE DEF items
  <2>4. AreParts(line, k, start, left)
    BY <1>1, <1>3, <2>3, Parts
  <2>. QED
    BY <2>1, <2>2, <2>4 DEF AreParts
<1>5. Grow(items)
  BY <1>1
<1>. HIDE DEF items
<1>6. /\ file' \in Text /\ Len(file') = Len(file) + k /\ Len(file) \in Nat
      /\ \A p \in 1 .. Len(file) : file'[p] = file[p]
      /\ \A i \in 1 .. k : file'[Len(file) + i] = items[i]
  BY <1>4, <1>5, Growth DEF ControlInv, WriterSound, Grow
<1>7. file = <<>> \/ file[Len(file)] = NL
  BY <1>2 DEF ControlInv, WriterSound
<1>8. Len(file) = 0 \/ file[Len(file)] = NL
  BY <1>7
<1>9. split \subseteq split'
  BY <1>1
<1>10. ReaderSound'
  <2>1. items # <<>>
    BY <1>3, <1>4
  <2>. QED
    BY <1>2, <1>4, <1>5, <1>8, <1>9, <2>1, GrowReader DEF ControlInv
<1>11. WriterSound'
  <2>1. writes' \in 0 .. MaxWrites
    BY <1>2, Lines DEF ControlInv, WriterSound
  <2>2. Len(file') + Len(rest') <= writes' * (Longest + 1)
    <3>. DEFINE a == writes * (Longest + 1)
    <3>1. writes \in Nat /\ Longest \in Nat /\ Len(file) + Len(rest) <= a /\ Len(rest) = 0
      BY <1>2, Lines DEF ControlInv, WriterSound
    <3>2. a \in Nat /\ writes' * (Longest + 1) = a + (Longest + 1)
      BY <1>2, <3>1, Products
    <3>. HIDE DEF a
    <3>. QED
      BY <1>3, <1>4, <1>6, <3>1, <3>2
  <2>3. ASSUME rest' = <<>> PROVE file'[Len(file')] = NL
    <3>1. k = Len(line) + 1
      BY <1>3, <1>4, <2>3
    <3>2. file'[Len(file) + k] = items[k] /\ items[k] = NL
      BY <1>3, <1>4, <1>6, <3>1
    <3>. QED
      BY <1>6, <3>2
  <2>4. ASSUME rest' # <<>>
        PROVE  /\ rest'[Len(rest')] = NL
               /\ \A i \in 1 .. Len(rest') - 1 : rest'[i] # NL
    <3>1. Len(rest') \in Nat \ {0}
      BY <1>4, <2>4 DEF Text
    <3>. QED
      BY <1>3, <1>4, <3>1
  <2>5. ASSUME rest' \notin {<<>>, <<NL>>} PROVE \E s \in split' : Starts(s, Len(file) + 1)'
    <3>1. Len(rest') > 1
      BY <1>4, <2>4, <2>5, LongRest
    <3>2. k < Len(line)
      BY <1>3, <1>4, <3>1
    <3>3. PICK s \in split' : s = Len(file) + 1
      BY <1>1, <3>2
    <3>4. s \in 1 .. Len(file') + 1 /\ (s = 1 \/ file'[s - 1] = NL)
      BY <1>3, <1>6, <1>8, <3>3
    <3>5. ASSUME NEW q \in s .. Len(file') + 1 - 1 PROVE file'[q] # NL
      <4>1. PICK i \in 1 .. k : q = Len(file) + i
        <5>1. q - Len(file) \in 1 .. k /\ q = Len(file) + (q - Len(file))
          BY <1>3, <1>6, <3>3, <3>5
        <5>. QED
          BY <5>1
      <4>2. file'[q] = items[i] /\ i # Len(line) + 1
        BY <1>3, <1>4, <1>6, <3>2, <4>1
      <4>. QED
        BY <1>4, <4>2
    <3>. QED
      BY <3>4, <3>5 DEF Starts
  <2>. QED
    BY <1>4, <1>6, <2>1, <2>2, <2>3, <2>4, <2>5 DEF WriterSound
<1>. QED
  BY <1>2, <1>10, <1>11 DEF ControlInv, StartSound, CountersSound

LEMMA WriteRestKeeps ==
    ASSUME ControlInv, WriteRest
    PROVE  ControlInv'
<1>1. /\ rest # <<>> /\ rest' = <<>> /\ Grow(rest)
      /\ UNCHANGED <<pc, starter, offset, size, cursor, cut, count, emptied, split, writes>>
  BY DEF WriteRest, workerVars, readerVars
<1>2. file \in Text /\ rest \in Text /\ rest[Len(rest)] = NL /\ Len(rest) \in Nat \ {0}
      /\ Len(file) + Len(rest) <= writes * (Longest + 1)
  BY <1>1, LongRest DEF ControlInv, WriterSound
<1>3. /\ file' \in Text /\ Len(file') = Len(file) + Len(rest) /\ Len(file) \in Nat
      /\ file'[Len(file) + Len(rest)] = rest[Len(rest)]
  BY <1>1, <1>2, Growth DEF Grow
<1>4. ReaderSound'
  <2>1. rest[1] # NL => \E s \in split : Starts(s, Len(file) + 1)
    <3>1. <<NL>>[1] = NL
      OBVIOUS
    <3>. QED
      BY <1>1, <3>1 DEF ControlInv, WriterSound
  <2>. QED
    BY <1>1, <1>2, <2>1, GrowReader DEF ControlInv
<1>5. WriterSound'
  <2>1. Len(rest') = 0 /\ rest' \in Text
    BY <1>1 DEF Text
  <2>2. Len(file') + Len(rest') <= writes' * (Longest + 1)
    BY <1>1, <1>2, <1>3, <2>1
  <2>. QED
    BY <1>1, <1>2, <1>3, <2>1, <2>2 DEF ControlInv, WriterSound
<1>. QED
  BY <1>1, <1>4, <1>5 DEF ControlInv, StartSound, CountersSound

\* Of an empty file nothing has been read.
LEMMA EmptyKeeps ==
    ASSUME ControlInv, Empty
    PROVE  ControlInv'
<1>1. /\ rest = <<>> /\ file' = <<>> /\ split' = {} /\ emptied' = (offset > 0 \/ Reading)
      /\ count' = [p \in Positions |-> 0] /\ cut' = {}
      /\ UNCHANGED <<pc, starter, offset, size, cursor, rest, writes>>
  BY DEF Empty, Forget, workerVars, readerVars, Reading
<1>2. WriterSound'
  <2>1. writes \in Nat /\ writes * (Longest + 1) \in Nat
    BY Lines, Products DEF ControlInv, WriterSound
  <2>2. <<>> \in Text /\ Len(<<>>) = 0
    BY DEF Text
  <2>. QED
    BY <1>1, <2>1, <2>2 DEF ControlInv, WriterSound
<1>3. ReaderSound'
  <2>. SUFFICES ASSUME ~emptied' PROVE ReaderSound'
    BY DEF ReaderSound
  <2>1. offset' = 0 /\ ~Reading' /\ Len(file') = 0
    <3>1. offset \in Nat /\ ~(offset > 0) /\ ~Reading
      BY <1>1 DEF ControlInv, CountersSound
    <3>2. offset = 0 /\ Len(<<>>) = 0
      BY <3>1
    <3>. QED
      BY <1>1, <3>1, <3>2 DEF Reading
  <2>2. Joined(offset)'
    BY <2>1 DEF Joined
  <2>3. Followed(offset, Len(file))'
    <3>1. \A p \in Positions : p \in Nat \ {0} /\ count'[p] = 0
      BY <1>1, Room DEF ControlInv, Positions
    <3>. QED
      BY <2>1, <3>1 DEF Followed, Once, Positions
  <2>. QED
    BY <1>1, <2>1, <2>2, <2>3 DEF ReaderSound
<1>4. CountersSound'
  BY <1>1 DEF ControlInv, CountersSound, Positions
<1>. QED
  BY <1>1, <1>2, <1>3, <1>4 DEF ControlInv, StartSound

-------------------------------------------------------------------------------
(* The listener *)

LEMMA WriterStays ==
    ASSUME WriterSound, UNCHANGED <<file, rest, writes, split>>
    PROVE  WriterSound'
BY DEF WriterSound, Starts

LEMMA FollowedEither ==
    ASSUME NEW c, NEW z, Followed(c, z)
    PROVE  Followed(z, c)
BY DEF Followed

LEMMA PollKeeps ==
    ASSUME ControlInv, Poll
    PROVE  ControlInv'
<1>1. /\ ~Reading /\ pc["file"] = "loop" /\ offset' = Begin
      /\ IF Len(file) > offset'
         THEN size' = Len(file) /\ cursor' = offset' /\ pc' = [pc EXCEPT !["file"] = "read"]
         ELSE UNCHANGED <<size, cursor, pc>>
      /\ IF offset' < offset
         THEN Forget /\ emptied' = FALSE
         ELSE UNCHANGED <<G_QUEUES, emptied, cut, late, count, taken>>
      /\ UNCHANGED <<file, rest, writes, split, starter>>
  BY DEF Poll, Reading, writerVars
<1>2. /\ file \in Text /\ Len(file) \in Nat /\ offset \in Nat /\ size \in Nat /\ cursor \in Nat
      /\ count \in [Positions -> Nat] /\ emptied \in BOOLEAN /\ pc \in [Workers -> States]
  BY DEF ControlInv, WriterSound, CountersSound, StartSound, Text
<1>3. offset' \in Nat /\ (offset' = offset \/ (offset' = 0 /\ offset' < offset))
  BY <1>1, <1>2 DEF Begin
<1>4. WriterSound'
  BY <1>1, WriterStays DEF ControlInv
<1>5. StartSound'
  <2>1. pc' = pc \/ pc' = [pc EXCEPT !["file"] = "read"]
    BY <1>1
  <2>2. pc' \in [Workers -> States]
    BY <1>2, <2>1 DEF States
  <2>3. starter' \notin {"console", "file"}
    BY <1>1 DEF ControlInv, StartSound
  <2>. QED
    BY <2>2, <2>3 DEF StartSound
<1>6. CountersSound'
  <2>1. size' \in Nat /\ cursor' \in Nat
    BY <1>1, <1>2, <1>3
  <2>2. count' \in [Positions -> Nat] /\ emptied' \in BOOLEAN
    <3>1. CASE offset' < offset
      <4>1. count' = [p \in Positions |-> 0] /\ emptied' = FALSE
        BY <1>1, <3>1 DEF Forget
      <4>. QED
        BY <4>1
    <3>2. CASE ~(offset' < offset)
      BY <1>1, <1>2, <3>2
    <3>. QED
      BY <3>1, <3>2
  <2>. QED
    BY <1>3, <2>1, <2>2 DEF CountersSound, Positions
<1>7. IF Len(file) > offset' THEN Reading' ELSE ~Reading'
  BY <1>1, <1>2 DEF Reading, Workers
<1>8. ReaderSound'
  <2>. SUFFICES ASSUME ~emptied' PROVE ReaderSound'
    BY DEF ReaderSound
  <2>1. CASE offset' < offset
    <3>1. offset' = 0 /\ cut' = {} /\ \A p \in Positions : count'[p] = 0 /\ p \in Nat \ {0}
      BY <1>1, <1>2, <1>3, <2>1, Room DEF Forget, Positions
    <3>2. Joined(offset)'
      BY <1>1, <3>1 DEF Joined
    <3>3. CASE Len(file) > offset'
      <4>1. Reading' /\ size' = Len(file) /\ cursor' = 0 /\ Len(file') = Len(file)
        BY <1>1, <1>7, <3>1, <3>3
      <4>2. Joined(cursor)' /\ Joined(size)'
        BY <1>1, <1>2, <4>1 DEF Joined
      <4>3. Followed(cursor, size)'
        BY <3>1, <4>1 DEF Followed, Once, Positions
      <4>. QED
        BY <1>2, <3>1, <3>2, <4>1, <4>2, <4>3 DEF ReaderSound
    <3>4. CASE ~(Len(file) > offset')
      <4>1. Followed(offset, Len(file))'
        BY <3>1 DEF Followed, Once, Positions
      <4>2. ~Reading' /\ Len(file') \in Nat
        BY <1>1, <1>2, <1>7, <3>4
      <4>. QED
        BY <3>1, <3>2, <4>1, <4>2 DEF ReaderSound
    <3>. QED
      BY <3>3, <3>4
  <2>2. CASE ~(offset' < offset)
    <3>1. offset' = offset /\ UNCHANGED <<emptied, cut, late, count, file, split>>
      BY <1>1, <1>3, <2>2
    <3>2. /\ cut \subseteq split /\ offset \in 0 .. Len(file) /\ Joined(offset)
          /\ Followed(offset, Len(file))
      BY <1>1, <3>1 DEF ControlInv, ReaderSound
    <3>3. Joined(offset)'
      BY <3>1, <3>2 DEF Joined, Starts
    <3>4. CASE Len(file) > offset'
      <4>1. Reading' /\ size' = Len(file) /\ cursor' = offset /\ Len(file') = Len(file)
        BY <1>1, <1>7, <3>1, <3>4
      <4>2. Joined(cursor)'
        BY <3>1, <3>3, <4>1 DEF Joined
      <4>3. Joined(size)'
        BY <1>2, <4>1 DEF Joined
      <4>4. Followed(cursor, size)'
        BY <3>1, <3>2, <4>1 DEF Followed, Once, Seen, Positions
      <4>5. \A p \in size' + 1 .. Len(file') : p \in late'
        BY <1>2, <4>1
      <4>. QED
        BY <1>2, <3>1, <3>2, <3>3, <4>1, <4>2, <4>3, <4>4, <4>5 DEF ReaderSound
    <3>5. CASE ~(Len(file) > offset')
      <4>1. Followed(offset, Len(file))'
        BY <3>1, <3>2 DEF Followed, Once, Seen, Positions
      <4>. QED
        BY <1>7, <3>1, <3>2, <3>3, <3>5, <4>1 DEF ReaderSound
    <3>. QED
      BY <3>4, <3>5
  <2>. QED
    BY <2>1, <2>2
<1>. QED
  BY <1>4, <1>5, <1>6, <1>8 DEF ControlInv

\* A line that is not whole was written in parts: what was read of it goes on
\* over an offset, or its rest was still to be written.
LEMMA CutIsSplit ==
    ASSUME WriterSound, NEW c \in 0 .. Len(file) - 1, NEW e \in c + 1 .. Len(file) + 1,
           \A q \in c + 1 .. e - 1 : file[q] # NL, Joined(c),
           \/ c + 1 # LineStart(c + 1)
           \/ e > Len(file) /\ rest \notin {<<>>, <<NL>>},
           NEW p \in c + 1 .. e - 1
    PROVE  LineStart(p) \in split
<1>1. Len(file) \in Nat /\ p \in Nat /\ c \in Nat /\ e \in Nat /\ c + 1 \in Nat
  BY DEF WriterSound, Text
<1>2. CASE c + 1 # LineStart(c + 1)
  <2>1. ~Starts(c + 1, c + 1)
    BY <1>1, <1>2, LineStartIs
  <2>2. c # 0 /\ file[c] # NL
    BY <1>1, <2>1 DEF Starts
  <2>3. file[c + 1] # NL /\ c \in 1 .. Len(file) - 1
    BY <1>1, <2>2
  <2>4. PICK s \in split : Starts(s, c + 1)
    BY <2>2, <2>3 DEF Joined
  <2>5. Starts(s, p)
    BY <1>1, <2>4 DEF Starts
  <2>. QED
    BY <1>1, <2>4, <2>5, LineStartIs
<1>3. CASE e > Len(file) /\ rest \notin {<<>>, <<NL>>}
  <2>1. PICK s \in split : Starts(s, Len(file) + 1)
    BY <1>3 DEF WriterSound
  <2>2. e = Len(file) + 1 /\ s \in 1 .. Len(file) + 1 /\ (s = 1 \/ file[s - 1] = NL)
    BY <1>1, <1>3, <2>1 DEF Starts
  <2>3. ~(s > p)
    <3>1. s > p => s - 1 \in c + 1 .. e - 1 /\ s # 1
      BY <1>1, <2>2
    <3>. QED
      BY <2>2, <3>1
  <2>4. Starts(s, p)
    BY <1>1, <2>1, <2>2, <2>3 DEF Starts
  <2>. QED
    BY <1>1, <2>1, <2>4, LineStartIs
<1>. QED
  BY <1>2, <1>3

\* Reading on to m, which is the end of the line or of the file.
LEMMA ReadOn ==
    ASSUME WriterSound, count \in [Positions -> Nat],
           NEW c \in Nat, NEW z \in Nat, NEW m \in Nat, NEW w \in Nat, Followed(c, z),
           c <= m, m <= Len(file), w \in c .. m, w = m \/ (w = m - 1 /\ file[m] = NL),
           \A p \in z + 1 .. Len(file) : p \in late,
           count' = [p \in Positions |-> IF p \in c + 1 .. w THEN count[p] + 1 ELSE count[p]],
           UNCHANGED <<file, late>>
    PROVE  Followed(m, z)'
<1>. SUFFICES ASSUME NEW p \in Positions
              PROVE  /\ p <= m /\ p <= z => Seen(p)'
                     /\ ~(p <= m /\ p <= z) => Once(p)'
                     /\ p > m /\ p > z => count'[p] = 0
  BY DEF Followed, Positions
<1>1. /\ p \in Nat /\ count[p] \in Nat /\ Len(file) \in Nat
      /\ count'[p] = IF p \in c + 1 .. w THEN count[p] + 1 ELSE count[p]
  BY Room
<1>2. /\ p <= c /\ p <= z => Seen(p)
      /\ ~(p <= c /\ p <= z) => Once(p)
      /\ p > c /\ p > z => count[p] = 0
  BY DEF Followed
<1>3. CASE p <= c
  <2>1. count'[p] = count[p] /\ p <= m
    BY <1>1, <1>3
  <2>. QED
    BY <1>1, <1>2, <1>3, <2>1 DEF Seen, Once
<1>4. CASE p > c /\ p <= w
  <2>1. count'[p] = count[p] + 1 /\ p <= m /\ p <= Len(file)
    BY <1>1, <1>4
  <2>2. CASE p <= z
    <3>1. Once(p)
      BY <1>1, <1>2, <1>4
    <3>. QED
      BY <1>1, <2>1, <2>2, <3>1 DEF Seen, Once
  <2>3. CASE p > z
    <3>1. count[p] = 0 /\ p \in late
      BY <1>1, <1>2, <1>4, <2>1, <2>3
    <3>. QED
      BY <1>1, <2>1, <2>3, <3>1 DEF Seen, Once
  <2>. QED
    BY <1>1, <2>2, <2>3
<1>5. CASE p > w
  <2>1. count'[p] = count[p] /\ p > c
    BY <1>1, <1>5
  <2>2. Once(p)
    BY <1>1, <1>2, <2>1
  <2>3. CASE p <= m
    <3>1. p = m /\ file[m] = NL
      BY <1>1, <1>5, <2>3
    <3>. QED
      BY <1>1, <2>1, <2>2, <2>3, <3>1 DEF Seen, Once
  <2>4. CASE p > m
    BY <1>1, <1>2, <2>1, <2>2, <2>4 DEF Seen, Once
  <2>. QED
    BY <1>1, <2>3, <2>4
<1>. QED
  BY <1>1, <1>3, <1>4, <1>5

LEMMA ReadLineKeeps ==
    ASSUME ControlInv, ReadLine
    PROVE  ControlInv'
<1>1. PICK e : e = LineEnd
  OBVIOUS
<1>2. PICK words : words = cursor + 1 .. e - 1
  OBVIOUS
<1>3. /\ Reading /\ pc["file"] = "read" /\ cursor < Len(file)
      /\ count' = [p \in Positions |-> IF p \in words THEN count[p] + 1 ELSE count[p]]
      /\ cut' = cut \cup {LineStart(p) : p \in IF Whole(cursor + 1) THEN {} ELSE words}
      /\ IF e > Len(file) THEN EndReading ELSE cursor' = e /\ UNCHANGED <<pc, offset, size>>
      /\ UNCHANGED <<file, rest, writes, emptied, split, late, starter>>
  BY <1>1, <1>2 DEF ReadLine, Reading, writerVars
<1>4. /\ file \in Text /\ Len(file) \in Nat /\ offset \in Nat /\ size \in Nat /\ cursor \in Nat
      /\ count \in [Positions -> Nat] /\ emptied \in BOOLEAN /\ pc \in [Workers -> States]
  BY DEF ControlInv, WriterSound, CountersSound, StartSound, Text
<1>5. /\ e \in cursor + 1 .. Len(file) + 1
      /\ e = Len(file) + 1 \/ file[e] = NL
      /\ \A p \in cursor + 1 .. e - 1 : file[p] # NL
  BY <1>1, <1>3, <1>4, LineEndIs
<1>6. WriterSound'
  BY <1>3, WriterStays DEF ControlInv
<1>7. StartSound'
  <2>1. pc' = pc \/ pc' = [pc EXCEPT !["file"] = "loop"]
    BY <1>3 DEF EndReading
  <2>2. pc' \in [Workers -> States]
    BY <1>4, <2>1 DEF States
  <2>3. starter' \notin {"console", "file"}
    BY <1>3 DEF ControlInv, StartSound
  <2>. QED
    BY <2>2, <2>3 DEF StartSound
<1>8. CountersSound'
  <2>1. count' \in [Positions -> Nat]
    BY <1>3, <1>4
  <2>2. offset' \in Nat /\ size' \in Nat /\ cursor' \in Nat
    BY <1>3, <1>4, <1>5 DEF EndReading
  <2>. QED
    BY <1>3, <1>4, <2>1, <2>2 DEF CountersSound, Positions
<1>9. ReaderSound'
  <2>. SUFFICES ASSUME ~emptied PROVE ReaderSound'
    BY <1>3 DEF ReaderSound
  <2>1. /\ cut \subseteq split /\ offset \in 0 .. Len(file) /\ Joined(offset)
        /\ cursor \in offset .. Len(file) /\ Joined(cursor)
        /\ size \in offset .. Len(file) /\ Joined(size)
        /\ \A p \in size + 1 .. Len(file) : p \in late
        /\ Followed(cursor, size)
    BY <1>3 DEF ControlInv, ReaderSound
  <2>2. PICK c \in Nat, z \in Nat : c = cursor /\ z = size
    BY <1>4
  <2>3. cut' \subseteq split'
    <3>. SUFFICES ASSUME ~Whole(cursor + 1), NEW p \in words PROVE LineStart(p) \in split
      BY <1>3, <2>1
    <3>1. /\ c \in 0 .. Len(file) - 1 /\ e \in c + 1 .. Len(file) + 1 /\ p \in c + 1 .. e - 1
          /\ Joined(c)
      BY <1>2, <1>3, <1>4, <1>5, <2>1, <2>2 DEF Joined
    <3>2. \/ c + 1 # LineStart(c + 1)
          \/ e > Len(file) /\ rest \notin {<<>>, <<NL>>}
      <4>1. PICK f : f = c + 1
        OBVIOUS
      <4>2. ~Whole(f)
        BY <2>2, <4>1
      <4>3. f # LineStart(f) \/ (e > Len(file) /\ rest \notin {<<>>, <<NL>>})
        BY <1>1, <4>2 DEF Whole
      <4>. QED
        BY <4>1, <4>3
    <3>. QED
      BY <1>5, <2>2, <3>1, <3>2, CutIsSplit DEF ControlInv
  <2>4. PICK m \in Nat, w \in Nat : m = (IF e > Len(file) THEN Len(file) ELSE e) /\ w = e - 1
    BY <1>4, <1>5
  <2>5. Followed(m, z)'
    <3>1. c <= m /\ m <= Len(file) /\ w \in c .. m /\ (w = m \/ (w = m - 1 /\ file[m] = NL))
      BY <1>3, <1>4, <1>5, <2>2, <2>4
    <3>2. count' = [p \in Positions |-> IF p \in c + 1 .. w THEN count[p] + 1 ELSE count[p]]
      BY <1>2, <1>3, <2>2, <2>4
    <3>3. Followed(c, z) /\ \A p \in z + 1 .. Len(file) : p \in late
      BY <2>1, <2>2 DEF Followed
    <3>. QED
      BY <1>3, <1>4, <3>1, <3>2, <3>3, ReadOn DEF ControlInv
  <2>6. ASSUME NEW d, Joined(d) PROVE Joined(d)'
    BY <1>3, <2>6 DEF Joined, Starts
  <2>7. CASE e > Len(file)
    <3>1. /\ ~Reading' /\ offset' = z /\ Len(file') = m
      BY <1>3, <1>4, <2>2, <2>4, <2>7 DEF EndReading, Reading, Workers
    <3>2. Joined(offset)'
      BY <2>1, <2>2, <2>6, <3>1 DEF Joined
    <3>3. Followed(offset, Len(file))'
      BY <2>5, <3>1 DEF Followed
    <3>4. offset' \in 0 .. Len(file')
      BY <1>3, <1>4, <2>1, <2>2, <3>1
    <3>. QED
      BY <2>3, <3>1, <3>2, <3>3, <3>4 DEF ReaderSound
  <2>8. CASE ~(e > Len(file))
    <3>1. /\ Reading' /\ offset' = offset /\ size' = z /\ cursor' = m /\ m = e
          /\ file' = file /\ late' = late
      BY <1>3, <2>2, <2>4, <2>8 DEF Reading
    <3>2. file[m] = NL /\ m \in offset .. Len(file)
      BY <1>4, <1>5, <2>1, <2>8, <3>1
    <3>3. Joined(cursor)'
      BY <3>1, <3>2 DEF Joined
    <3>4. Joined(offset)' /\ Joined(size)'
      BY <2>1, <2>2, <2>6, <3>1 DEF Joined
    <3>5. Followed(cursor, size)'
      BY <2>5, <3>1 DEF Followed
    <3>. QED
      BY <2>1, <2>2, <2>3, <3>1, <3>2, <3>3, <3>4, <3>5 DEF ReaderSound
  <2>. QED
    BY <2>7, <2>8
<1>. QED
  BY <1>6, <1>7, <1>8, <1>9 DEF ControlInv

LEMMA ReadEndKeeps ==
    ASSUME ControlInv, ReadEnd
    PROVE  ControlInv'
<1>1. /\ Reading /\ cursor >= Len(file) /\ pc["file"] = "read"
      /\ pc' = [pc EXCEPT !["file"] = "loop"] /\ offset' = size /\ cursor' = 0 /\ size' = 0
      /\ UNCHANGED <<file, rest, writes, emptied, split, cut, late, count, starter>>
  BY DEF ReadEnd, EndReading, Reading, writerVars, pastVars
<1>2. /\ Len(file) \in Nat /\ size \in Nat /\ cursor \in Nat /\ pc \in [Workers -> States]
  BY DEF ControlInv, WriterSound, CountersSound, StartSound, Text
<1>3. WriterSound'
  BY <1>1, WriterStays DEF ControlInv
<1>4. StartSound'
  BY <1>1, <1>2 DEF ControlInv, StartSound, States
<1>5. CountersSound'
  BY <1>1 DEF ControlInv, CountersSound, Positions
<1>6. ReaderSound'
  <2>. SUFFICES ASSUME ~emptied PROVE ReaderSound'
    BY <1>1 DEF ReaderSound
  <2>1. /\ cut \subseteq split /\ offset \in Nat /\ cursor \in offset .. Len(file)
        /\ size \in offset .. Len(file) /\ Joined(size) /\ Followed(cursor, size)
    BY <1>1 DEF ControlInv, ReaderSound, CountersSound
  <2>2. PICK z : z = size
    OBVIOUS
  <2>3. cursor = Len(file) /\ offset' = z /\ Joined(z) /\ z \in 0 .. Len(file) /\ ~Reading'
    BY <1>1, <1>2, <2>1, <2>2 DEF Joined, Reading, Workers
  <2>4. Joined(offset)'
    BY <1>1, <2>3 DEF Joined, Starts
  <2>5. Followed(offset, Len(file))'
    BY <1>1, <2>1, <2>2, <2>3 DEF Followed, Seen, Once, Positions
  <2>. QED
    BY <1>1, <2>1, <2>3, <2>4, <2>5 DEF ReaderSound
<1>. QED
  BY <1>3, <1>4, <1>5, <1>6 DEF ControlInv

-------------------------------------------------------------------------------
(* The invariant holds *)

\* What leaves the file and the listener's place in it alone.
LEMMA AsideKeeps ==
    ASSUME ControlInv,
           UNCHANGED <<file, offset, size, cursor, rest, writes, emptied, split, cut, late,
                       count>>,
           Reading' = Reading, StartSound'
    PROVE  ControlInv'
<1>1. WriterSound'
  BY WriterStays DEF ControlInv
<1>2. ASSUME NEW d, Joined(d) PROVE Joined(d)'
  BY <1>2 DEF Joined, Starts
<1>3. CountersSound'
  BY DEF ControlInv, CountersSound, Positions
<1>4. ReaderSound'
  <2>1. Joined(offset) => Joined(offset)'
    BY DEF Joined, Starts
  <2>2. Joined(cursor) => Joined(cursor)'
    BY DEF Joined, Starts
  <2>3. Joined(size) => Joined(size)'
    BY DEF Joined, Starts
  <2>4. Followed(offset, Len(file)) => Followed(offset, Len(file))'
    BY DEF Followed, Seen, Once, Positions
  <2>5. Followed(cursor, size) => Followed(cursor, size)'
    BY DEF Followed, Seen, Once, Positions
  <2>. QED
    BY <2>1, <2>2, <2>3, <2>4, <2>5 DEF ControlInv, ReaderSound
<1>. QED
  BY <1>1, <1>3, <1>4 DEF ControlInv

LEMMA StartKeeps ==
    ASSUME ControlInv, Start
    PROVE  ControlInv'
<1>1. UNCHANGED <<file, offset, size, cursor, rest, writes, emptied, split, cut, late, count>>
  BY DEF Start, StartWorker, CheckWorkers, ClearRunning, readerVars, writerVars, pastVars
<1>2. pc \in [Workers -> States] /\ (starter \in {"console", "file"} => pc["file"] = "none")
  BY DEF ControlInv, StartSound
<1>3. Reading' = Reading /\ StartSound'
  <2>1. CASE StartWorker("console", "file")
    <3>1. starter = "console" /\ (pc' = pc \/ pc' = [pc EXCEPT !["console"] = "new"])
      BY <2>1 DEF StartWorker
    <3>2. pc'["file"] = pc["file"] /\ pc' \in [Workers -> States]
      BY <1>2, <3>1 DEF Workers, States
    <3>. QED
      BY <1>2, <3>1, <3>2 DEF Reading, StartSound
  <2>2. CASE StartWorker("file", "check")
    <3>1. /\ starter = "file" /\ starter' = "check"
          /\ pc' = pc \/ pc' = [pc EXCEPT !["file"] = "new"]
      BY <2>2 DEF StartWorker
    <3>2. pc'["file"] \in {"none", "new"} /\ pc' \in [Workers -> States] /\ pc["file"] = "none"
      BY <1>2, <3>1 DEF Workers, States
    <3>. QED
      BY <3>1, <3>2 DEF Reading, StartSound
  <2>3. CASE CheckWorkers
    BY <1>2, <2>3 DEF CheckWorkers, Reading, StartSound
  <2>4. CASE ClearRunning
    BY <1>2, <2>4 DEF ClearRunning, Reading, StartSound
  <2>. QED
    BY <2>1, <2>2, <2>3, <2>4 DEF Start
<1>. QED
  BY <1>1, <1>3, AsideKeeps

LEMMA WorkerKeeps ==
    ASSUME ControlInv, NEW w \in Workers, Worker(w)
    PROVE  ControlInv'
<1>. DEFINE Steps == /\ pc[w] \in {"new", "added", "stopping", "last"}
                     /\ \E to \in {"added", "loop", "last", "ended"} :
                           pc' = [pc EXCEPT ![w] = to]
<1>1. /\ UNCHANGED <<file, offset, size, cursor, rest, writes, emptied, split, cut, late, count>>
      /\ starter' = starter
  BY DEF Worker, Started, Stopped, SetActive, SetRunning, readerVars, writerVars, pastVars
<1>2. Steps
  <2>1. CASE SetActive(w, "new", "added", G_ACTIVE + 1)
    BY <2>1 DEF SetActive
  <2>2. CASE SetRunning(w, "added", "loop", TRUE)
    BY <2>2 DEF SetRunning
  <2>3. CASE SetActive(w, "stopping", IF LastWorker(G_ACTIVE - 1) THEN "last" ELSE "ended",
                       G_ACTIVE - 1)
    BY <2>3 DEF SetActive
  <2>4. CASE SetRunning(w, "last", "ended", FALSE)
    BY <2>4 DEF SetRunning
  <2>. HIDE DEF Steps
  <2>. QED
    BY <2>1, <2>2, <2>3, <2>4 DEF Worker, Started, Stopped
<1>3. PICK to \in {"added", "loop", "last", "ended"} : pc' = [pc EXCEPT ![w] = to]
  BY <1>2
<1>4. pc \in [Workers -> States] /\ (starter \in {"console", "file"} => pc["file"] = "none")
  BY DEF ControlInv, StartSound
<1>5. /\ pc' \in [Workers -> States]
      /\ pc'["file"] = IF w = "file" THEN to ELSE pc["file"]
  BY <1>3, <1>4 DEF Workers, States
<1>6. Reading' = Reading
  BY <1>2, <1>5 DEF Reading
<1>7. StartSound'
  BY <1>1, <1>2, <1>4, <1>5 DEF StartSound
<1>. QED
  BY <1>1, <1>6, <1>7, AsideKeeps

LEMMA OthersKeep ==
    ASSUME ControlInv, TypeLine \/ EndConsole \/ EndFile \/ Pop \/ UNCHANGED vars
    PROVE  ControlInv'
<1>1. /\ UNCHANGED <<file, offset, size, cursor, rest, writes, emptied, split, cut, late, count>>
      /\ starter' = starter
  BY DEF TypeLine, EndConsole, EndFile, Pop, vars, workerVars, readerVars, writerVars, pastVars
<1>2. \/ pc' = pc
      \/ pc' = [pc EXCEPT !["console"] = "stopping"]
      \/ pc["file"] = "loop" /\ pc' = [pc EXCEPT !["file"] = "stopping"]
  BY DEF TypeLine, EndConsole, EndFile, Pop, vars, workerVars
<1>3. pc \in [Workers -> States] /\ (starter \in {"console", "file"} => pc["file"] = "none")
  BY DEF ControlInv, StartSound
<1>4. /\ pc' \in [Workers -> States]
      /\ \/ pc'["file"] = pc["file"]
         \/ pc["file"] = "loop" /\ pc'["file"] = "stopping"
  BY <1>2, <1>3 DEF Workers, States
<1>5. Reading' = Reading /\ StartSound'
  BY <1>1, <1>3, <1>4 DEF Reading, StartSound
<1>. QED
  BY <1>1, <1>5, AsideKeeps

\* Nothing has been read when the program starts.
LEMMA InitControl == Init => ControlInv
<1>. SUFFICES ASSUME Init PROVE ControlInv
  OBVIOUS
<1>1. /\ pc = [w \in Workers |-> "none"] /\ starter = "console"
      /\ file \in {<<>>} \cup {l \o <<NL>> : l \in WrittenLines}
      /\ offset = 0 /\ size = 0 /\ cursor = 0 /\ rest = <<>>
      /\ writes = (IF file = <<>> THEN 0 ELSE 1)
      /\ emptied = FALSE /\ split = {} /\ cut = {} /\ late = {}
      /\ count = [p \in Positions |-> 0]
  BY DEF Init
<1>2. Longest \in Nat /\ MaxWrites \in Nat \ {0} /\ rest \in Text /\ Len(rest) = 0
  BY <1>1, Lines DEF Text
<1>3. /\ file \in Text /\ writes \in 0 .. MaxWrites /\ Len(file) <= writes * (Longest + 1)
      /\ file = <<>> \/ file[Len(file)] = NL
  <2>1. CASE file = <<>>
    BY <1>1, <1>2, <2>1 DEF Text
  <2>2. CASE file # <<>>
    <3>1. PICK line \in WrittenLines : file = line \o <<NL>>
      BY <1>1, <2>2
    <3>2. /\ file \in Text /\ Len(file) = Len(line) + 1 /\ Len(line) \in 0 .. Longest
          /\ \A i \in 1 .. Len(line) + 1 : file[i] = NL <=> i = Len(line) + 1
      BY <3>1, Lines, WholeLine
    <3>. QED
      BY <1>1, <1>2, <2>2, <3>2
  <2>. QED
    BY <2>1, <2>2
<1>4. WriterSound
  BY <1>1, <1>2, <1>3 DEF WriterSound
<1>5. Len(file) \in Nat
  BY <1>3 DEF Text
<1>6. ~Reading
  BY <1>1 DEF Reading, Workers
<1>7. ReaderSound
  <2>1. Joined(offset)
    BY <1>1 DEF Joined
  <2>2. Followed(offset, Len(file))
    BY <1>1 DEF Followed, Once, Positions
  <2>. QED
    BY <1>1, <1>5, <1>6, <2>1, <2>2 DEF ReaderSound
<1>8. StartSound /\ CountersSound
  BY <1>1 DEF StartSound, CountersSound, Workers, States
<1>. QED
  BY <1>4, <1>7, <1>8 DEF ControlInv

LEMMA NextControl == ControlInv /\ [Next]_vars => ControlInv'
<1>. SUFFICES ASSUME ControlInv, [Next]_vars PROVE ControlInv'
  OBVIOUS
<1>1. CASE Start
  BY <1>1, StartKeeps
<1>2. CASE \E w \in Workers : Worker(w)
  BY <1>2, WorkerKeeps
<1>3. CASE TypeLine \/ EndConsole \/ EndFile \/ Pop \/ UNCHANGED vars
  BY <1>3, OthersKeep
<1>4. CASE WriteLine
  BY <1>4, WriteLineKeeps
<1>5. CASE WriteRest
  BY <1>5, WriteRestKeeps
<1>6. CASE Empty
  BY <1>6, EmptyKeeps
<1>7. CASE Poll
  BY <1>7, PollKeeps
<1>8. CASE ReadLine
  BY <1>8, ReadLineKeeps
<1>9. CASE ReadEnd
  BY <1>9, ReadEndKeeps
<1>. QED
  BY <1>1, <1>2, <1>3, <1>4, <1>5, <1>6, <1>7, <1>8, <1>9 DEF Next, FileLoop

LEMMA ControlReads == ControlInv => LinesRead
<1>. SUFFICES ASSUME ControlInv, ~emptied PROVE LinesRead
  BY DEF LinesRead
<1>1. /\ Len(file) \in Nat /\ 1 .. Len(file) \subseteq Positions /\ Positions \subseteq Nat
      /\ count \in [Positions -> Nat]
  BY Room DEF ControlInv, CountersSound
<1>2. cut \subseteq split /\ offset \in 0 .. Len(file)
  BY DEF ControlInv, ReaderSound
<1>3. PICK c \in Nat, z \in Nat : c >= offset /\ z >= offset /\ Followed(c, z)
  <2>1. CASE Reading
    <3>1. /\ cursor \in offset .. Len(file) /\ size \in offset .. Len(file)
          /\ Followed(cursor, size)
      BY <2>1 DEF ControlInv, ReaderSound
    <3>2. PICK c, z : c = cursor /\ z = size
      OBVIOUS
    <3>3. c \in Nat /\ z \in Nat /\ c >= offset /\ z >= offset /\ Followed(c, z)
      BY <1>1, <1>2, <3>1, <3>2 DEF Followed
    <3>. QED
      BY <3>3
  <2>2. CASE ~Reading
    <3>1. Followed(offset, Len(file))
      BY <2>2 DEF ControlInv, ReaderSound
    <3>2. PICK c, z : c = offset /\ z = Len(file)
      OBVIOUS
    <3>3. c \in Nat /\ z \in Nat /\ c >= offset /\ z >= offset /\ Followed(c, z)
      BY <1>1, <1>2, <3>1, <3>2 DEF Followed
    <3>. QED
      BY <3>3
  <2>. QED
    BY <2>1, <2>2
<1>4. \A p \in 1 .. offset : file[p] = NL \/ count[p] > 0
  BY <1>1, <1>2, <1>3 DEF Followed, Seen
<1>5. ASSUME NEW p \in Positions PROVE count[p] <= IF p \in late THEN 2 ELSE 1
  <2>1. count[p] \in Nat /\ (Seen(p) \/ Once(p))
    BY <1>1, <1>3 DEF Followed
  <2>. QED
    BY <2>1 DEF Seen, Once
<1>. QED
  BY <1>2, <1>4, <1>5 DEF LinesRead

-------------------------------------------------------------------------------
\* While the command file only grows file_loop leaves out nothing before its
\* offset, reads what was written while it was reading at most twice and the
\* rest once, and executes only those lines in parts that were written in parts.
THEOREM LinesAllRead == Spec => []LinesRead
<1>1. Spec => []ControlInv
  BY InitControl, NextControl, PTL DEF Spec
<1>. QED
  BY <1>1, ControlReads, PTL

-------------------------------------------------------------------------------
(* The running flag *)

Active(w)  == pc[w] \in {"added", "loop", "read", "stopping"}
Counted(w) == IF Active(w) THEN 1 ELSE 0

\* The workers that have started and not stopped are counted; and if the flag is
\* set, there is one of them or one that is about to clear it, whatever start()
\* does to the flag meanwhile.
FlagInv ==
    /\ pc \in [Workers -> States]
    /\ enabled \subseteq Workers
    /\ \A w \in Workers \ enabled : pc[w] = "none"
    /\ G_ACTIVE = Counted("console") + Counted("file")
    /\ G_RUNNING => \E w \in Workers : Active(w) \/ pc[w] = "last"

\* start() adds nobody to those who count, and clears the flag if anything.
LEMMA StartFlag ==
    ASSUME FlagInv, Start, starter = "console" => pc["console"] = "none",
           starter = "file" => pc["file"] = "none"
    PROVE  FlagInv'
<1>. USE DEF Workers
<1>1. enabled' = enabled /\ G_ACTIVE' = G_ACTIVE /\ (G_RUNNING' => G_RUNNING)
  BY DEF Start, StartWorker, CheckWorkers, ClearRunning
<1>2. pc' = pc \/ \E w \in enabled : pc[w] = "none" /\ pc' = [pc EXCEPT ![w] = "new"]
  BY DEF Start, StartWorker, CheckWorkers, ClearRunning
<1>3. CASE pc' = pc
  BY <1>1, <1>3 DEF FlagInv, Counted, Active
<1>4. CASE \E w \in enabled : pc[w] = "none" /\ pc' = [pc EXCEPT ![w] = "new"]
  <2>1. PICK w \in enabled : pc[w] = "none" /\ pc' = [pc EXCEPT ![w] = "new"]
    BY <1>4
  <2>2. /\ pc' \in [Workers -> States]
        /\ \A x \in Workers : pc'[x] = IF x = w THEN "new" ELSE pc[x]
    BY <2>1 DEF FlagInv, States
  <2>3. \A x \in Workers : (Active(x)' <=> Active(x)) /\ (pc'[x] = "last" <=> pc[x] = "last")
    BY <2>1, <2>2 DEF Active
  <2>. QED
    BY <1>1, <2>1, <2>2, <2>3 DEF FlagInv, Counted
<1>. QED
  BY <1>2, <1>3, <1>4

\* The last worker to stop clears the flag; another one leaves somebody behind who
\* will, and who may not even have set it.
LEMMA WorkerFlag ==
    ASSUME FlagInv, NEW w \in Workers, Worker(w)
    PROVE  FlagInv'
<1>. USE DEF Workers
<1>1. PICK to \in {"added", "loop", "last", "ended"} : pc' = [pc EXCEPT ![w] = to]
  BY DEF Worker, Started, Stopped, SetActive, SetRunning
<1>2. /\ pc' \in [Workers -> States]
      /\ \A x \in Workers : pc'[x] = IF x = w THEN to ELSE pc[x]
  BY <1>1 DEF FlagInv, States
<1>3. enabled' = enabled /\ pc[w] # "none"
  BY DEF Worker, Started, Stopped, SetActive, SetRunning
<1>4. \A x \in Workers \ enabled' : pc'[x] = "none"
  BY <1>2, <1>3 DEF FlagInv
<1>5. PICK other \in Workers : Workers = {w, other} /\ other # w
  OBVIOUS
<1>6. pc'[w] = to /\ pc'[other] = pc[other] /\ (Active(other)' <=> Active(other))
  BY <1>2, <1>5 DEF Active
<1>7. G_ACTIVE = Counted(w) + Counted(other)
  BY <1>5 DEF FlagInv, Counted
<1>8. G_ACTIVE' = (Counted(w) + Counted(other))' => G_ACTIVE' = (Counted("console") + Counted("file"))'
  BY <1>5 DEF Counted
<1>9. CASE SetActive(w, "new", "added", G_ACTIVE + 1)
  <2>1. pc[w] = "new" /\ pc'[w] = "added" /\ G_ACTIVE' = G_ACTIVE + 1 /\ G_RUNNING' = G_RUNNING
    BY <1>2, <1>9 DEF SetActive, FlagInv
  <2>2. G_ACTIVE' = (Counted(w) + Counted(other))' /\ Active(w)'
    BY <1>6, <1>7, <2>1 DEF Counted, Active
  <2>. QED
    BY <1>2, <1>3, <1>4, <1>8, <2>1, <2>2 DEF FlagInv
<1>10. CASE SetRunning(w, "added", "loop", TRUE)
  <2>1. pc[w] = "added" /\ pc'[w] = "loop" /\ G_ACTIVE' = G_ACTIVE
    BY <1>2, <1>10 DEF SetRunning, FlagInv
  <2>2. G_ACTIVE' = (Counted(w) + Counted(other))' /\ Active(w)'
    BY <1>6, <1>7, <2>1 DEF Counted, Active
  <2>. QED
    BY <1>2, <1>3, <1>4, <1>8, <2>1, <2>2 DEF FlagInv
<1>11. CASE SetActive(w, "stopping", IF LastWorker(G_ACTIVE - 1) THEN "last" ELSE "ended",
                      G_ACTIVE - 1)
  <2>1. /\ pc[w] = "stopping" /\ G_ACTIVE' = G_ACTIVE - 1
        /\ pc'[w] = IF G_ACTIVE - 1 = 0 THEN "last" ELSE "ended"
    BY <1>2, <1>11 DEF SetActive, FlagInv, LastWorker
  <2>2. Counted(w) = 1 /\ Counted(w)' = 0 /\ Counted(other)' = Counted(other)
    BY <1>6, <2>1 DEF Counted, Active
  <2>3. G_ACTIVE' = (Counted(w) + Counted(other))' /\ G_ACTIVE - 1 = Counted(other)
    BY <1>7, <2>1, <2>2 DEF Counted
  <2>4. pc'[w] = "last" \/ Active(other)'
    BY <1>6, <2>1, <2>3 DEF Counted
  <2>. QED
    BY <1>2, <1>3, <1>4, <1>8, <2>3, <2>4 DEF FlagInv
<1>12. CASE SetRunning(w, "last", "ended", FALSE)
  <2>1. pc[w] = "last" /\ pc'[w] = "ended" /\ G_ACTIVE' = G_ACTIVE /\ G_RUNNING' = FALSE
    BY <1>2, <1>12 DEF SetRunning, FlagInv
  <2>2. G_ACTIVE' = (Counted(w) + Counted(other))'
    BY <1>6, <1>7, <2>1 DEF Counted, Active
  <2>. QED
    BY <1>2, <1>3, <1>4, <1>8, <2>1, <2>2 DEF FlagInv
<1>. QED
  BY <1>9, <1>10, <1>11, <1>12 DEF Worker, Started, Stopped

\* A worker that reads, waits or begins to stop is counted all the while.
LEMMA OthersFlag ==
    ASSUME FlagInv, \/ TypeLine \/ EndConsole \/ WriteLine \/ WriteRest \/ Empty
                    \/ FileLoop \/ Pop \/ UNCHANGED vars
    PROVE  FlagInv'
<1>. USE DEF Workers
<1>1. enabled' = enabled /\ G_ACTIVE' = G_ACTIVE /\ G_RUNNING' = G_RUNNING
  BY DEF TypeLine, EndConsole, WriteLine, WriteRest, Empty, FileLoop, Poll, ReadLine,
         ReadEnd, EndFile, Pop, vars, workerVars
<1>2. \/ pc' = pc
      \/ \E w \in Workers, to \in {"loop", "read", "stopping"} :
            pc[w] \in {"loop", "read"} /\ pc' = [pc EXCEPT ![w] = to]
  BY DEF TypeLine, EndConsole, WriteLine, WriteRest, Empty, FileLoop, Poll, ReadLine,
         ReadEnd, EndFile, EndReading, Pop, vars, workerVars
<1>3. CASE pc' = pc
  BY <1>1, <1>3 DEF FlagInv, Counted, Active
<1>4. CASE pc' # pc
  <2>1. PICK w \in Workers, to \in {"loop", "read", "stopping"} :
          pc[w] \in {"loop", "read"} /\ pc' = [pc EXCEPT ![w] = to]
    BY <1>2, <1>4
  <2>2. /\ pc' \in [Workers -> States]
        /\ \A x \in Workers : pc'[x] = IF x = w THEN to ELSE pc[x]
    BY <2>1 DEF FlagInv, States
  <2>3. \A x \in Workers : (Active(x)' <=> Active(x)) /\ (pc'[x] = "last" <=> pc[x] = "last")
                           /\ (pc[x] = "none" => pc'[x] = "none")
    BY <2>1, <2>2 DEF Active
  <2>. QED
    BY <1>1, <2>2, <2>3 DEF FlagInv, Counted
<1>. QED
  BY <1>3, <1>4

\* start() has not started yet whom it is to start next.
StarterInv ==
    /\ starter \in {"console", "file", "check", "clear", "done"}
    /\ starter = "console" => pc["console"] = "none"
    /\ starter \in {"console", "file"} => pc["file"] = "none"

\* When start() is over and the workers have ended, the program does not count as
\* running: not even if one of them started between the look start() takes at them
\* and its store, or set the flag after the other had begun to stop.
THEOREM FlagIsSettled == Spec => []FlagSettled
<1>1. Init => FlagInv /\ StarterInv
  BY DEF Init, FlagInv, StarterInv, Workers, States, Counted, Active
<1>2. FlagInv /\ StarterInv /\ [Next]_vars => FlagInv'
  BY StartFlag, WorkerFlag, OthersFlag DEF StarterInv, Next
<1>3. FlagInv /\ StarterInv /\ [Next]_vars => StarterInv'
  <2>. SUFFICES ASSUME FlagInv, StarterInv, [Next]_vars PROVE StarterInv'
    OBVIOUS
  <2>1. CASE Start
    BY <2>1 DEF Start, StartWorker, CheckWorkers, ClearRunning, StarterInv, FlagInv, Workers
  <2>2. CASE ~Start
    <3>1. starter' = starter
      BY <2>2 DEF Next, Worker, Started, Stopped, SetActive, SetRunning, TypeLine, EndConsole,
                  WriteLine, WriteRest, Empty, FileLoop, Poll, ReadLine, ReadEnd, EndFile, Pop,
                  vars, workerVars
    <3>2. \A w \in Workers : pc[w] = "none" => pc'[w] = "none"
      BY <2>2 DEF Next, Worker, Started, Stopped, SetActive, SetRunning, TypeLine, EndConsole,
                  WriteLine, WriteRest, Empty, FileLoop, Poll, ReadLine, ReadEnd, EndFile,
                  EndReading, Pop, vars, workerVars, FlagInv, Workers
    <3>. QED
      BY <3>1, <3>2 DEF StarterInv, Workers
  <2>. QED
    BY <2>1, <2>2
<1>4. FlagInv => FlagSettled
  BY DEF FlagInv, FlagSettled, AllEnded, Active
<1>. QED
  BY <1>1, <1>2, <1>3, <1>4, PTL DEF Spec

================================================================================
