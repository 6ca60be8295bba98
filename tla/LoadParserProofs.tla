-------------------------- MODULE LoadParserProofs --------------------------
(***************************************************************************)
(* What the parser does with the texts of a file, for files of any tokens   *)
(* and any length: every text it stores stands in the clause it is stored   *)
(* for, and no text of an accepted file is lost without a trace.            *)
(*                                                                          *)
(* The invariant remembers what the parser forgets: for the texts of each   *)
(* clause the position of the keyword they follow, which no text ever       *)
(* covers because the cursor only moves forward.                            *)
(*                                                                          *)
(* The last part is about what is done with the options that were read:     *)
(* the last one about a setting decides it.                                 *)
(***************************************************************************)
EXTENDS LoadParser, Options, SequenceTheorems, WellFoundedInduction, TLAPS

ClauseFields == OptionClauses \cup SQLClauses \cup {"table", "schema"}

\* The keywords that texts of a field follow.
KeywordsOf(f) ==
    IF f = "schema" THEN ValueClauses ELSE IF f = "table" THEN {"TARGETTABLE"} ELSE {f}

\* Tokens that are no texts.
Words == Separators \cup Clauses \cup {"LOAD", "DATABASE", "CSV", "FROM", "INTO"}

InText(c, p) == \E f \in Fields : p \in Texts(c, f)
Held(p) == InText(cmd, p) \/ \E j \in 1..Len(cmds) : InText(cmds[j], p)

\* A keyword among the texts of f in c can only be a SET. The operators that
\* speak of a command have the tokens as a parameter too.
SetInText(tokens, c, f, i) == tokens[i] \in Clauses => tokens[i] = "SET" /\ i \in Texts(c, f)

\* The texts of f in c follow the keyword at k: no other keyword is in between.
Follow(tokens, c, f, k) ==
    \A p \in Texts(c, f) : k < p /\ \A i \in (k + 1)..(p - 1) : SetInText(tokens, c, f, i)

\* Position k, that no text covers, has the keyword of the texts of f in c.
Heading(c, f, k) ==
    /\ k \in 1..(pos - 1) /\ file[k] \in KeywordsOf(f) /\ ~Held(k)
    /\ Follow(file, c, f, k)

OneCommand(tokens, k, q) == \A i \in k..q : tokens[i] # ";"

\* The texts of the current command.
Current(f) ==
    Texts(cmd, f) = {} \/
    \E k \in 1..(pos - 1) :
        /\ Heading(cmd, f, k) /\ OneCommand(file, k, pos - 1)
        /\ f = "schema" /\ file[k] = "TARGETTABLE" => Texts(cmd, "schema") \subseteq Texts(cmd, "table")

\* The clause that is being read.
Open ==
    clause # "" =>
        \E k \in 1..(pos - 1) :
            /\ Heading(cmd, clause, k) /\ OneCommand(file, k, pos - 1)
            /\ \A i \in (k + 1)..(pos - 1) : SetInText(file, cmd, clause, i)

IsSetText(tokens, p) == tokens[p] \in Clauses => tokens[p] = "SET" /\ tokens[p - 1] \notin {",", "NL"}
SetOnly(tokens, c) ==
    \A f \in OptionClauses \cup SQLClauses : \A p \in Texts(c, f) : IsSetText(tokens, p)

ReplacedSoFar(p) ==
    \E k \in 1..(p - 1), q \in (p + 1)..(pos - 1) :
        /\ {file[k], file[q]} \subseteq Clauses /\ SameClause(k, q) /\ ~Held(k) /\ ~Held(q)
        /\ \A i \in (k + 1)..p : file[i] \in Clauses => file[i] = "SET"
        /\ OneCommand(file, k, q)

Types ==
    /\ file \in Seq(Tokens) /\ pos \in 1..(Len(file) + 1) /\ rest \in {"", "rest"}
    /\ cmd \in [Fields -> Seq(Int \X Int)]
    /\ cmds \in Seq([Fields -> Seq(Int \X Int)])
    /\ clause \in OptionClauses \cup SQLClauses \cup {""}
    /\ state \in {"split", "init", "type", "from", "into", "done", "end"} \cup Clauses
    /\ result \in {"", "ok", "error"}

Ends(tokens, p) == p > Len(tokens) \/ tokens[p] = ";"
Ahead(tokens, p) == \E q \in p..Len(tokens) : tokens[q] = ";"
Closed(tokens) ==
    \E i \in 1..Len(tokens) : tokens[i] = ";" /\ \A j \in (i + 1)..Len(tokens) : tokens[j] = "NL"

\* Which fields of the command may be set in a state of parseCommand.
Filled ==
    /\ state \in {"split", "init", "type"} => cmd = NoCommand
    /\ state \in {"from", "into"} => \A f \in Fields \ {"CSV", "FROM", "columns"} : cmd[f] = <<>>
    /\ state = "from" => cmd["FROM"] = <<>> /\ cmd["columns"] = <<>>
    /\ cmd["skipped"] = <<>> \/ (state = "done" /\ Ends(file, pos) /\ rest = "") \/ state = "end"

\* What stands at the cursor.
Pointed ==
    /\ state \in {"split", "init", "type", "from"} => rest = ""
    /\ rest # "" => ~Ends(file, pos)
    /\ state \in Clauses /\ clause = "" => rest = "" /\ ~Ends(file, pos) /\ file[pos] = state
    /\ clause \in {"", state}

\* A command that is read ends with a semicolon.
Ending ==
    /\ state = "split" => pos = 1 /\ cmds = <<>>
    /\ state = "end" <=> result # ""
    /\ result = "ok" => cmd = NoCommand /\ \A i \in pos..Len(file) : file[i] = "NL"
    /\ state \notin {"split", "end"} => Closed(file)
    /\ state \notin {"split", "init", "end"} => Ahead(file, pos)

Control == Filled /\ Pointed /\ Ending

\* Texts lie behind the cursor.
Places == \A p : Held(p) => p \in 1..pos /\ (p = pos => rest # "")

\* The commands that are done.
Done ==
    /\ \A j \in 1..Len(cmds), f \in ClauseFields :
          Texts(cmds[j], f) = {} \/ \E k \in 1..(pos - 1) : Heading(cmds[j], f, k)
    /\ \A j \in 1..Len(cmds) : SetOnly(file, cmds[j])

Headed == Done /\ (\A f \in ClauseFields : Current(f)) /\ Open /\ SetOnly(file, cmd)

\* Of what the cursor has passed nothing is lost.
Accounted == \A p \in 1..(pos - 1) : file[p] \in Words \/ Held(p) \/ ReplacedSoFar(p)

IInv == Types /\ Control /\ (result # "error" => Places /\ Headed /\ Accounted)

----------------------------------------------------------------------------
(* Cursor movements *)

\* A set of positions that is not empty has a first one.
LEMMA FirstPosition ==
    ASSUME NEW p \in Nat, NEW n \in Nat, NEW S \in SUBSET (p..n), S # {}
    PROVE  \E i \in S : \A j \in p..(i - 1) : j \in (p..n) \ S
  <1> DEFINE Less == {ss \in Nat \X Nat : ss[1] < ss[2]}
  <1>1. Less = OpToRel(<, Nat)
    BY Zenon DEF OpToRel
  <1>2. IsWellFoundedOn(Less, Nat)
    BY <1>1, NatLessThanWellFounded, Zenon
  <1> HIDE DEF Less
  <1>0. S \subseteq Nat
    OBVIOUS
  <1>3. \E i \in S : \A j \in S : ~(<<j, i>> \in Less)
    BY <1>0, <1>2, WFMin, Zenon
  <1>4. ASSUME NEW i \in S, NEW j \in S, ~(<<j, i>> \in Less)
        PROVE  i <= j
    BY <1>0, <1>4 DEF Less
  <1>5. PICK i \in S : \A j \in S : i <= j
    BY <1>3, <1>4
  <1>6. ASSUME NEW j \in p..(i - 1), j \in S
        PROVE  FALSE
    <2>1. i <= j
      BY <1>5, <1>6
    <2>2. QED
      BY <2>1, <1>0
  <1>7. \A j \in p..(i - 1) : j \in p..n
    OBVIOUS
  <1>8. QED
    BY <1>6, <1>7

\* skipSpace stops at the first token that is no line end.
LEMMA SkipStops ==
    ASSUME Len(file) \in Nat, NEW p \in 1..(Len(file) + 1)
    PROVE  /\ Skip(p) \in p..(Len(file) + 1)
           /\ Skip(p) > Len(file) \/ file[Skip(p)] # "NL"
           /\ \A i \in p..(Skip(p) - 1) : file[i] = "NL"
  <1> DEFINE S == {q \in p..(Len(file) + 1) : q > Len(file) \/ file[q] # "NL"}
  <1>1. S \in SUBSET (p..(Len(file) + 1)) /\ S # {}
    <2>1. Len(file) + 1 \in S
      OBVIOUS
    <2>2. QED
      BY <2>1
  <1>2. PICK q \in S : \A j \in p..(q - 1) : j \in (p..(Len(file) + 1)) \ S
    <2>1. p \in Nat /\ Len(file) + 1 \in Nat
      OBVIOUS
    <2> HIDE DEF S
    <2>2. QED
      BY <1>1, <2>1, FirstPosition
  <1>3. \A i \in p..(q - 1) : file[i] = "NL"
    BY <1>2
  <1>4. \E r \in p..(Len(file) + 1) :
           /\ r > Len(file) \/ file[r] # "NL"
           /\ \A i \in p..(r - 1) : file[i] = "NL"
    BY <1>3
  <1>5. QED
    BY <1>4 DEF Skip

\* An option has an end, if only that of the file.
LEMMA OptionStops ==
    ASSUME Len(file) \in Nat, NEW p \in 1..(Len(file) + 1)
    PROVE  /\ OptionEnd(p) \in p..(Len(file) + 1)
           /\ OptionEndsAt(p, OptionEnd(p))
           /\ \A i \in p..(OptionEnd(p) - 1) : ~OptionEndsAt(p, i)
  <1> DEFINE S == {q \in p..(Len(file) + 1) : OptionEndsAt(p, q)}
  <1>1. S \in SUBSET (p..(Len(file) + 1)) /\ S # {}
    <2>1. Len(file) + 1 \in p..(Len(file) + 1) /\ Len(file) + 1 > Len(file)
      OBVIOUS
    <2>2. OptionEndsAt(p, Len(file) + 1)
      BY <2>1, Zenon DEF OptionEndsAt, EndsAt
    <2>3. QED
      BY <2>1, <2>2
  <1>2. PICK q \in S : \A j \in p..(q - 1) : j \in (p..(Len(file) + 1)) \ S
    <2>1. p \in Nat /\ Len(file) + 1 \in Nat
      OBVIOUS
    <2> HIDE DEF S
    <2>2. QED
      BY <1>1, <2>1, FirstPosition
  <1>3. \A i \in p..(q - 1) : ~OptionEndsAt(p, i)
    BY <1>2
  <1>4. \E r \in p..(Len(file) + 1) :
           /\ OptionEndsAt(p, r)
           /\ \A i \in p..(r - 1) : ~OptionEndsAt(p, i)
    BY <1>3
  <1>5. QED
    BY <1>4 DEF OptionEnd

\* The command that is read has its semicolon ahead.
LEMMA CommandStops ==
    ASSUME Len(file) \in Nat, pos \in Nat,
           NEW last \in pos..Len(file), file[last] = ";"
    PROVE  /\ CommandEnd \in pos..Len(file)
           /\ file[CommandEnd] = ";"
           /\ \A i \in pos..(CommandEnd - 1) : file[i] # ";"
  <1> DEFINE S == {q \in pos..Len(file) : file[q] = ";"}
  <1>1. S \in SUBSET (pos..Len(file)) /\ last \in S
    OBVIOUS
  <1>2. \E e \in S : \A j \in pos..(e - 1) : j \in (pos..Len(file)) \ S
    <2> HIDE DEF S
    <2>1. QED
      BY <1>1, FirstPosition
  <1>3. PICK e \in pos..Len(file) : e \in S /\ \A j \in pos..(e - 1) : j \in (pos..Len(file)) \ S
    BY <1>1, <1>2
  <1>4. \E r \in pos..Len(file) : file[r] = ";" /\ \A i \in pos..(r - 1) : file[i] # ";"
    BY <1>3
  <1>5. QED
    BY <1>4, Zenon DEF CommandEnd

\* readValue reads one token, and stays within it when it stops inside.
LEMMA ValueStops ==
    ASSUME Len(file) \in Nat, NEW v \in 1..Len(file), ~EndsAt(v)
    PROVE  /\ AfterValue(v) \in v..(Len(file) + 1)
           /\ Value(v) \in {<<v, v>>, <<v, v - 1>>}
           /\ Value(v) = <<v, v - 1>> => file[v] = "," /\ AfterValue(v) = v /\ Rest(v) = ""
           /\ Value(v) = <<v, v>> /\ AfterValue(v) = v => Rest(v) = "rest"
           /\ Rest(v) = "rest" => AfterValue(v) = v
           /\ Rest(v) \in {"", "rest"}
           /\ \A i \in v..(AfterValue(v) - 1) : i = v \/ file[i] = "NL"
  <1>1. v + 1 \in 1..(Len(file) + 1)
    OBVIOUS
  <1>2. /\ Skip(v + 1) \in (v + 1)..(Len(file) + 1)
        /\ \A i \in (v + 1)..(Skip(v + 1) - 1) : file[i] = "NL"
    BY <1>1, SkipStops
  <1>3. CASE file[v] = ","
    <2>1. ~StopsInside(v)
      BY <1>3 DEF StopsInside, SQLClauses, ValueClauses
    <2>2. Value(v) = <<v, v - 1>> /\ AfterValue(v) = v /\ Rest(v) = ""
      BY <1>3, <2>1 DEF AfterValue, Value, Rest
    <2>3. <<v, v - 1>> # <<v, v>> /\ v \in v..(Len(file) + 1) /\ v..(v - 1) = {}
      OBVIOUS
    <2> HIDE DEF Value
    <2>4. Value(v) # <<v, v>>
      BY <2>2, <2>3
    <2>5. QED
      BY <1>3, <2>2, <2>3, <2>4
  <1>4. CASE file[v] # "," /\ StopsInside(v)
    <2>1. Value(v) = <<v, v>> /\ AfterValue(v) = v /\ Rest(v) = "rest"
      BY <1>4 DEF AfterValue, Value, Rest
    <2>2. QED
      BY <2>1
  <1>5. CASE file[v] # "," /\ ~StopsInside(v)
    <2>1. Value(v) = <<v, v>> /\ AfterValue(v) = Skip(v + 1) /\ Rest(v) = ""
      BY <1>5 DEF AfterValue, Value, Rest
    <2>2. \A i \in v..(Skip(v + 1) - 1) : i = v \/ i \in (v + 1)..(Skip(v + 1) - 1)
      BY <1>2
    <2>3. \A i \in v..(Skip(v + 1) - 1) : i = v \/ file[i] = "NL"
      BY <1>2, <2>2
    <2>4. Skip(v + 1) \in v..(Len(file) + 1) /\ Skip(v + 1) # v
      BY <1>2
    <2>5. <<v, v - 1>> # <<v, v>>
      OBVIOUS
    <2>6. QED
      BY <2>1, <2>3, <2>4, <2>5
  <1>6. QED
    BY <1>3, <1>4, <1>5


----------------------------------------------------------------------------
(* Texts of a command *)

\* Texts of fields that are the same, empty, of one text or one text longer.
LEMMA SameTexts ==
    ASSUME NEW c, NEW d, NEW f, NEW g, d[g] = c[f]
    PROVE  Texts(d, g) = Texts(c, f)
  BY DEF Texts

LEMMA NoTexts ==
    ASSUME NEW c, NEW f, c[f] = <<>>
    PROVE  Texts(c, f) = {}
  BY DEF Texts

LEMMA OneText ==
    ASSUME NEW c, NEW f, NEW a, NEW b, c[f] = <<<<a, b>>>>
    PROVE  Texts(c, f) = a..b
  <1>1. Len(c[f]) = 1 /\ c[f][1] = <<a, b>>
    OBVIOUS
  <1>2. Texts(c, f) = UNION {c[f][i][1]..c[f][i][2] : i \in {1}}
    BY <1>1 DEF Texts
  <1>3. c[f][1][1] = a /\ c[f][1][2] = b
    BY <1>1
  <1>4. QED
    BY <1>2, <1>3

LEMMA OnePosition ==
    ASSUME NEW c, NEW f, NEW p \in Int, c[f] = <<<<p, p>>>>
    PROVE  Texts(c, f) = {p}
  <1>1. Texts(c, f) = p..p
    BY OneText
  <1>2. QED
    BY <1>1

LEMMA OneTextMore ==
    ASSUME NEW c, NEW d, NEW f, NEW a \in Int, NEW b \in Int,
           c[f] \in Seq(Int \X Int), d[f] = Append(c[f], <<a, b>>)
    PROVE  \A p : p \in Texts(d, f) <=> p \in Texts(c, f) \/ p \in a..b
  <1> DEFINE n == Len(c[f])
             Text(i) == d[f][i][1]..d[f][i][2]
  <1>1. n \in Nat /\ Len(d[f]) = n + 1
    OBVIOUS
  <1>2. d[f][n + 1] = <<a, b>>
    OBVIOUS
  <1>3. \A i \in 1..n : d[f][i] = c[f][i]
    OBVIOUS
  <1>4. 1..(n + 1) = 1..n \cup {n + 1}
    BY <1>1
  <1>5. Texts(d, f) = UNION {Text(i) : i \in 1..(n + 1)}
    BY <1>1 DEF Texts
  <1>6. Text(n + 1) = a..b
    BY <1>2
  <1>7. UNION {Text(i) : i \in 1..n} = Texts(c, f)
    BY <1>3 DEF Texts
  <1> HIDE DEF Text, n
  <1>8. QED
    BY <1>4, <1>5, <1>6, <1>7


----------------------------------------------------------------------------
(* removeComments. WithoutComments is defined by recursion: Step says how   *)
(* far it has got, and that there is such a function at all, and that it    *)
(* yields tokens, follows from a first position where it would not.         *)

Kept(f, i) ==
    IF i = 0 THEN <<>> ELSE IF file[i] = "comment" THEN f[i - 1] ELSE Append(f[i - 1], file[i])
KeptBy(f, n) == f = [i \in 0..n |-> Kept(f, i)]

LEMMA KeptExists ==
    ASSUME NEW len \in Nat
    PROVE  \E f : KeptBy(f, len)
  <1> DEFINE S == {n \in 0..len : ~\E f : KeptBy(f, n)}
  <1>1. ASSUME S # {}
        PROVE  FALSE
    <2>1. PICK n \in S : \A j \in 0..(n - 1) : j \in (0..len) \ S
      <3>1. S \in SUBSET (0..len)
        OBVIOUS
      <3> HIDE DEF S
      <3>2. QED
        BY <1>1, <3>1, FirstPosition
    <2>2. n \in Nat
      OBVIOUS
    <2>3. CASE n = 0
      <3> DEFINE g == [i \in 0..0 |-> <<>>]
      <3>1. \A i \in 0..0 : Kept(g, i) = <<>>
        BY DEF Kept
      <3>2. g = [i \in 0..0 |-> Kept(g, i)]
        BY <3>1
      <3>3. KeptBy(g, n)
        BY <2>3, <3>2 DEF KeptBy
      <3>4. QED
        BY <3>3
    <2>4. CASE n # 0
      <3>1. n - 1 \in 0..(n - 1) /\ n - 1 \in Nat
        BY <2>2, <2>4
      <3>2. PICK f : KeptBy(f, n - 1)
        BY <2>1, <3>1
      <3> DEFINE g == [i \in 0..n |-> IF i = n THEN Kept(f, n) ELSE f[i]]
      <3>3. \A i \in 0..(n - 1) : f[i] = Kept(f, i)
        BY <3>2 DEF KeptBy
      <3>4. \A i \in 0..(n - 1) : i \in 0..n /\ g[i] = f[i]
        BY <2>2
      <3>5. \A i \in 0..n : g[i] = Kept(g, i)
        <4> TAKE i \in 0..n
        <4>1. CASE i = 0
          <5>1. g[0] = f[0] /\ 0 \in 0..(n - 1)
            BY <2>2, <2>4, <3>4
          <5>2. f[0] = <<>>
            BY <3>3, <5>1 DEF Kept
          <5>3. QED
            BY <4>1, <5>1, <5>2 DEF Kept
        <4>2. CASE i # 0
          <5>1. i - 1 \in 0..(n - 1)
            BY <2>2, <4>2
          <5>2. g[i - 1] = f[i - 1]
            BY <3>4, <5>1
          <5>3. Kept(g, i) = Kept(f, i)
            <6> HIDE DEF g
            <6>1. QED
              BY <5>2 DEF Kept
          <5>4. CASE i = n
            BY <5>3, <5>4
          <5>5. CASE i # n
            <6>1. i \in 0..(n - 1)
              BY <2>2, <5>5
            <6>2. g[i] = f[i] /\ f[i] = Kept(f, i)
              BY <3>3, <3>4, <6>1
            <6>3. QED
              BY <5>3, <6>2
          <5>6. QED
            BY <5>4, <5>5
        <4>3. QED
          BY <4>1, <4>2
      <3>6. DOMAIN g = 0..n /\ g = [i \in 0..n |-> g[i]]
        OBVIOUS
      <3> HIDE DEF g
      <3>7. g = [i \in 0..n |-> Kept(g, i)]
        BY <3>5, <3>6
      <3>8. KeptBy(g, n)
        BY <3>7 DEF KeptBy
      <3>9. QED
        BY <3>8
    <2>5. QED
      BY <2>3, <2>4
  <1>2. QED
    <2>1. len \in 0..len /\ len \notin S
      BY <1>1
    <2>2. QED
      BY <2>1

LEMMA WithoutCommentsTokens ==
    ASSUME file \in Seq(Tokens)
    PROVE  WithoutComments \in Seq(Tokens)
  <1> DEFINE kept == CHOOSE f : KeptBy(f, Len(file))
  <1>1. Len(file) \in Nat
    OBVIOUS
  <1>2. KeptBy(kept, Len(file))
    <2>1. \E f : KeptBy(f, Len(file))
      BY <1>1, KeptExists
    <2>2. QED
      BY <2>1, Zenon
  <1>3. WithoutComments = kept[Len(file)]
    BY Zenon DEF WithoutComments, KeptBy, Kept
  <1> HIDE DEF kept
  <1>4. \A i \in 0..Len(file) : kept[i] = Kept(kept, i)
    BY <1>2 DEF KeptBy
  <1> DEFINE S == {i \in 0..Len(file) : kept[i] \notin Seq(Tokens)}
  <1>5. ASSUME S # {}
        PROVE  FALSE
    <2>1. PICK n \in S : \A j \in 0..(n - 1) : j \in (0..Len(file)) \ S
      <3>1. S \in SUBSET (0..Len(file))
        OBVIOUS
      <3> HIDE DEF S
      <3>2. QED
        BY <1>1, <1>5, <3>1, FirstPosition
    <2>2. n \in 0..Len(file) /\ kept[n] \notin Seq(Tokens)
      OBVIOUS
    <2>3. n # 0
      <3>1. kept[0] = <<>>
        BY <1>1, <1>4 DEF Kept
      <3>2. <<>> \in Seq(Tokens)
        OBVIOUS
      <3>3. QED
        BY <2>2, <3>1, <3>2
    <2>4. n - 1 \in 0..(n - 1) /\ n \in 1..Len(file)
      BY <1>1, <2>2, <2>3
    <2>5. kept[n - 1] \in Seq(Tokens)
      BY <2>1, <2>4
    <2>6. file[n] \in Tokens
      BY <2>4
    <2>7. kept[n] \in {kept[n - 1], Append(kept[n - 1], file[n])}
      BY <1>4, <2>2, <2>3 DEF Kept
    <2> HIDE DEF S
    <2>8. Append(kept[n - 1], file[n]) \in Seq(Tokens)
      BY <2>5, <2>6
    <2>9. QED
      BY <2>2, <2>5, <2>7, <2>8
  <1>6. QED
    <2>1. Len(file) \in 0..Len(file) /\ Len(file) \notin S
      BY <1>1, <1>5
    <2>2. QED
      BY <1>3, <2>1


----------------------------------------------------------------------------
(* The steps of the cursor. A step within a command covers the positions in *)
(* new with texts and passes the tokens from pos to pos'.                   *)

Reads(new) ==
    /\ file' = file /\ cmds' = cmds
    /\ pos' \in pos..(Len(file) + 1)
    /\ new \subseteq pos..pos'
    /\ pos' \in new => rest' # ""
    /\ pos' = pos /\ rest # "" => rest' # ""
    /\ \A f \in Fields : Texts(cmd', f) \subseteq Texts(cmd, f) \cup new
    /\ \A i \in new : InText(cmd', i)
    /\ \A i \in pos..(pos' - 1) : file[i] \in Words \/ i \in new
    /\ OneCommand(file, pos, pos' - 1) \/ \A f \in Fields : Texts(cmd', f) = {}

\* The positions of a step are numbers.
LEMMA Positions ==
    ASSUME Types
    PROVE  Len(file) \in Nat /\ pos \in Nat \ {0} /\ pos <= Len(file) + 1
  <1>1. file \in Seq(Tokens) /\ pos \in 1..(Len(file) + 1)
    BY DEF Types
  <1>2. Len(file) \in Nat
    BY <1>1
  <1>3. QED
    BY <1>1, <1>2

LEMMA ReadsForward ==
    ASSUME Types, NEW new, Reads(new)
    PROVE  /\ pos' \in Nat \ {0} /\ pos <= pos' /\ pos' <= Len(file) + 1
           /\ \A i \in new : i \in Nat /\ pos <= i /\ i <= pos'
  <1>1. Len(file) \in Nat /\ pos \in Nat \ {0}
    BY Positions
  <1>2. pos' \in pos..(Len(file) + 1) /\ new \subseteq pos..pos'
    BY DEF Reads
  <1>3. pos' \in Nat \ {0} /\ pos <= pos' /\ pos' <= Len(file) + 1
    BY <1>1, <1>2
  <1>4. QED
    BY <1>1, <1>2, <1>3

\* No text covers what the cursor has passed without one.
LEMMA StaysFree ==
    ASSUME Types, NEW new, Reads(new), NEW k \in 1..pos, k < pos \/ pos \notin new, ~Held(k)
    PROVE  ~Held(k)'
  <1>1. k \notin new
    BY Positions, ReadsForward
  <1>2. \A f \in Fields : k \notin Texts(cmd', f)
    BY <1>1 DEF Reads, Held, InText
  <1>3. ~InText(cmd', k)
    BY <1>2 DEF InText
  <1>4. \A j \in 1..Len(cmds) : ~InText(cmds[j], k)
    BY DEF Held
  <1>5. QED
    BY <1>3, <1>4 DEF Held, Reads

LEMMA PlacesStep ==
    ASSUME Types, Places, NEW new, Reads(new)
    PROVE  Places'
  <1> SUFFICES ASSUME NEW p, Held(p)'
               PROVE  p \in 1..pos' /\ (p = pos' => rest' # "")
    BY DEF Places
  <1>1. pos \in Nat \ {0} /\ pos' \in Nat \ {0} /\ pos <= pos'
    BY Positions, ReadsForward
  <1>2. p \in new \/ Held(p)
    <2>1. CASE InText(cmd', p)
      BY <2>1 DEF InText, Held, Reads
    <2>2. CASE \E j \in 1..Len(cmds') : InText(cmds'[j], p)
      BY <2>2 DEF Held, Reads
    <2>3. QED
      BY <2>1, <2>2 DEF Held
  <1>3. CASE p \in new
    <2>1. p \in Nat /\ pos <= p /\ p <= pos'
      BY <1>3, ReadsForward
    <2>2. p = pos' => rest' # ""
      BY <1>3 DEF Reads
    <2>3. p \in 1..pos'
      BY <1>1, <2>1
    <2>4. QED
      BY <2>2, <2>3
  <1>4. CASE Held(p)
    <2>1. p \in 1..pos
      BY <1>4 DEF Places
    <2>2. p = pos' => pos' = pos
      BY <1>1, <2>1
    <2>3. p \in 1..pos'
      BY <1>1, <2>1
    <2>4. p = pos => rest # ""
      BY <1>4 DEF Places
    <2>5. pos' = pos /\ rest # "" => rest' # ""
      BY DEF Reads
    <2>6. QED
      BY <2>2, <2>3, <2>4, <2>5
  <1>5. QED
    BY <1>2, <1>3, <1>4


\* A keyword stays where it is.
LEMMA KeywordKept ==
    ASSUME Types, NEW new, Reads(new), NEW k \in 1..(pos - 1), ~Held(k)
    PROVE  k \in 1..(pos' - 1) /\ ~Held(k)'
  <1>1. k \in 1..pos /\ k < pos
    BY Positions
  <1>2. k \in 1..(pos' - 1)
    BY Positions, ReadsForward
  <1>3. QED
    BY <1>1, <1>2, StaysFree

LEMMA OneCommandOn ==
    ASSUME Types, NEW new, Reads(new), OneCommand(file, pos, pos' - 1),
           NEW k \in 1..(pos - 1), OneCommand(file, k, pos - 1)
    PROVE  OneCommand(file, k, pos' - 1)
  <1> SUFFICES ASSUME NEW i \in k..(pos' - 1)
               PROVE  file[i] # ";"
    BY DEF OneCommand
  <1>1. i \in k..(pos - 1) \/ i \in pos..(pos' - 1)
    BY Positions, ReadsForward
  <1>2. QED
    BY <1>1 DEF OneCommand

LEMMA CurrentKept ==
    ASSUME Types, NEW new, Reads(new), NEW f \in Fields, Current(f),
           Texts(cmd', f) = Texts(cmd, f),
           f = "schema" => Texts(cmd', "table") = Texts(cmd, "table")
    PROVE  Current(f)'
  <1>1. CASE Texts(cmd', f) = {}
    BY <1>1 DEF Current
  <1>2. CASE Texts(cmd', f) # {}
    <2>1. PICK k \in 1..(pos - 1) :
             /\ Heading(cmd, f, k) /\ OneCommand(file, k, pos - 1)
             /\ f = "schema" /\ file[k] = "TARGETTABLE" => Texts(cmd, "schema") \subseteq Texts(cmd, "table")
      BY <1>2 DEF Current
    <2>2. file[k] \in KeywordsOf(f) /\ ~Held(k) /\ Follow(file, cmd, f, k)
      BY <2>1 DEF Heading
    <2>3. k \in 1..(pos' - 1) /\ ~Held(k)'
      BY <2>2, KeywordKept
    <2>4. Follow(file, cmd', f, k)
      BY <2>2 DEF Follow, SetInText
    <2>5. OneCommand(file, pos, pos' - 1)
      BY <1>2 DEF Reads
    <2>6. OneCommand(file, k, pos' - 1)
      BY <2>1, <2>5, OneCommandOn
    <2>7. file' = file
      BY DEF Reads
    <2>8. f = "schema" /\ file[k] = "TARGETTABLE" => Texts(cmd', "schema") \subseteq Texts(cmd', "table")
      BY <2>1
    <2>9. QED
      BY <2>2, <2>3, <2>4, <2>6, <2>7, <2>8 DEF Current, Heading
  <1>3. QED
    BY <1>1, <1>2

LEMMA DoneKept ==
    ASSUME Types, NEW new, Reads(new), Done
    PROVE  Done'
  <1>1. file' = file /\ cmds' = cmds
    BY DEF Reads
  <1>2. ASSUME NEW j \in 1..Len(cmds), NEW f \in ClauseFields,
               NEW k \in 1..(pos - 1), Heading(cmds[j], f, k)
        PROVE  /\ k \in 1..(pos' - 1) /\ file'[k] \in KeywordsOf(f) /\ ~Held(k)'
               /\ Follow(file', cmds'[j], f, k)
    <2>1. ~Held(k)
      BY <1>2 DEF Heading
    <2>2. QED
      BY <1>1, <1>2, <2>1, KeywordKept DEF Heading
  <1>3. ASSUME NEW j \in 1..Len(cmds'), NEW f \in ClauseFields
        PROVE  \/ Texts(cmds'[j], f) = {}
               \/ \E k \in 1..(pos' - 1) :
                     /\ k \in 1..(pos' - 1) /\ file'[k] \in KeywordsOf(f) /\ ~Held(k)'
                     /\ Follow(file', cmds'[j], f, k)
    BY <1>1, <1>2 DEF Done
  <1>4. \A j \in 1..Len(cmds') : SetOnly(file', cmds'[j])
    BY <1>1 DEF Done
  <1>5. QED
    BY <1>3, <1>4 DEF Done, Heading

LEMMA ReplacedKept ==
    ASSUME Types, NEW new, Reads(new), NEW p \in 1..(pos - 1), ReplacedSoFar(p)
    PROVE  ReplacedSoFar(p)'
  <1>1. PICK k \in 1..(p - 1), q \in (p + 1)..(pos - 1) :
           /\ {file[k], file[q]} \subseteq Clauses /\ SameClause(k, q) /\ ~Held(k) /\ ~Held(q)
           /\ \A i \in (k + 1)..p : file[i] \in Clauses => file[i] = "SET"
           /\ OneCommand(file, k, q)
    BY DEF ReplacedSoFar
  <1>2. k \in 1..(pos - 1) /\ q \in 1..(pos - 1) /\ q \in (p + 1)..(pos' - 1)
    BY Positions, ReadsForward
  <1>3. ~Held(k)' /\ ~Held(q)'
    BY <1>1, <1>2, KeywordKept
  <1>4. file' = file
    BY DEF Reads
  <1>5. SameClause(k, q)'
    BY <1>1, <1>4 DEF SameClause
  <1>6. QED
    BY <1>1, <1>2, <1>3, <1>4, <1>5 DEF ReplacedSoFar


LEMMA HeldGrows ==
    ASSUME NEW new, Reads(new), \A f \in Fields : Texts(cmd, f) \subseteq Texts(cmd', f),
           NEW p, Held(p)
    PROVE  Held(p)'
  <1>1. CASE InText(cmd, p)
    BY <1>1 DEF Held, InText
  <1>2. CASE \E j \in 1..Len(cmds) : InText(cmds[j], p)
    BY <1>2 DEF Held, Reads
  <1>3. QED
    BY <1>1, <1>2 DEF Held

LEMMA AccountedStep ==
    ASSUME Types, NEW new, Reads(new), Accounted,
           \A p \in 1..(pos - 1) : Held(p) => file[p] \in Words \/ Held(p)' \/ ReplacedSoFar(p)'
    PROVE  Accounted'
  <1> SUFFICES ASSUME NEW p \in 1..(pos' - 1)
               PROVE  file[p] \in Words \/ Held(p)' \/ ReplacedSoFar(p)'
    BY DEF Accounted, Reads
  <1>1. CASE p \in 1..(pos - 1)
    BY <1>1, ReplacedKept DEF Accounted
  <1>2. CASE p \in pos..(pos' - 1)
    <2>1. file[p] \in Words \/ p \in new
      BY <1>2 DEF Reads
    <2>2. p \in new => Held(p)'
      BY DEF Reads, Held
    <2>3. QED
      BY <2>1, <2>2
  <1>3. QED
    BY <1>1, <1>2, Positions, ReadsForward

ClauseInv == Places /\ Headed /\ Accounted

\* A step that reads no clause.
LEMMA OutsideStep ==
    ASSUME Types, ClauseInv, NEW new, Reads(new), clause' = "",
           \A f \in ClauseFields : cmd'[f] = cmd[f],
           \A f \in Fields : Texts(cmd, f) \subseteq Texts(cmd', f)
    PROVE  ClauseInv'
  <1>1. \A f \in ClauseFields : Texts(cmd', f) = Texts(cmd, f)
    BY DEF Texts
  <1>2. ClauseFields \subseteq Fields /\ "table" \in ClauseFields
    BY DEF ClauseFields, Fields
  <1>3. \A f \in ClauseFields : Current(f)'
    BY <1>1, <1>2, CurrentKept DEF ClauseInv, Headed
  <1>4. Open'
    BY DEF Open
  <1>5. SetOnly(file', cmd')
    BY <1>1 DEF SetOnly, ClauseFields, ClauseInv, Headed, Reads
  <1>6. Done'
    BY DoneKept DEF ClauseInv, Headed
  <1>7. Headed'
    BY <1>3, <1>4, <1>5, <1>6 DEF Headed
  <1>8. Places'
    BY PlacesStep DEF ClauseInv
  <1>9. Accounted'
    BY AccountedStep, HeldGrows DEF ClauseInv
  <1>10. QED
    BY <1>7, <1>8, <1>9 DEF ClauseInv

\* A step of a clause that is being read.
Within(new) ==
    /\ clause \in OptionClauses \cup SQLClauses /\ clause' = clause
    /\ \A f \in Fields \ {clause} : cmd'[f] = cmd[f]
    /\ Texts(cmd', clause) = Texts(cmd, clause) \cup new
    /\ OneCommand(file, pos, pos' - 1)
    /\ \A i \in pos..(pos' - 1) : file[i] \in Clauses => file[i] = "SET" /\ i \in new
    /\ \A p \in new : IsSetText(file, p)

LEMMA WithinStep ==
    ASSUME Types, ClauseInv, NEW new, Reads(new), Within(new)
    PROVE  ClauseInv'
  <1>1. ClauseFields \subseteq Fields /\ "table" \in ClauseFields /\ clause \in ClauseFields
    BY DEF ClauseFields, Fields, Within
  <1>2. clause \notin {"", "table", "schema"}
    BY DEF Within, OptionClauses, SQLClauses
  <1>3. \A f \in Fields \ {clause} : Texts(cmd', f) = Texts(cmd, f)
    BY SameTexts DEF Within
  <1>4. ASSUME NEW f \in ClauseFields \ {clause}
        PROVE  Current(f)'
    <2>1. f \in Fields /\ f # clause /\ "table" \in Fields /\ "table" # clause
      BY <1>1, <1>2
    <2>2. Texts(cmd', f) = Texts(cmd, f) /\ Texts(cmd', "table") = Texts(cmd, "table")
      BY <1>3, <2>1
    <2>3. Current(f)
      BY DEF ClauseInv, Headed
    <2>4. QED
      BY <2>1, <2>2, <2>3, CurrentKept
  <1>5. file' = file /\ clause' = clause
    BY DEF Reads, Within
  <1>6. PICK k \in 1..(pos - 1) :
           /\ Heading(cmd, clause, k) /\ OneCommand(file, k, pos - 1)
           /\ \A i \in (k + 1)..(pos - 1) : SetInText(file, cmd, clause, i)
    BY <1>2 DEF ClauseInv, Headed, Open
  <1>7. file[k] \in KeywordsOf(clause) /\ ~Held(k) /\ Follow(file, cmd, clause, k)
    BY <1>6 DEF Heading
  <1>8. k \in 1..(pos' - 1) /\ ~Held(k)'
    BY <1>7, KeywordKept
  <1>9. OneCommand(file, k, pos' - 1)
    BY <1>6, OneCommandOn DEF Within
  <1>10. \A i \in (k + 1)..(pos' - 1) : SetInText(file, cmd', clause, i)
    <2> TAKE i \in (k + 1)..(pos' - 1)
    <2>1. i \in (k + 1)..(pos - 1) \/ i \in pos..(pos' - 1)
      BY Positions, ReadsForward
    <2>2. QED
      BY <1>6, <2>1 DEF Within, SetInText
  <1>11. Follow(file, cmd', clause, k)
    <2> SUFFICES ASSUME NEW p \in Texts(cmd', clause)
                 PROVE  k < p /\ \A i \in (k + 1)..(p - 1) : SetInText(file, cmd', clause, i)
      BY DEF Follow
    <2>1. CASE p \in Texts(cmd, clause)
      BY <1>7, <2>1 DEF Follow, SetInText, Within
    <2>2. CASE p \in new
      <3>1. p \in Nat /\ pos <= p /\ p <= pos'
        BY <2>2, ReadsForward
      <3>2. k < p /\ \A i \in (k + 1)..(p - 1) : i \in (k + 1)..(pos' - 1)
        BY <3>1, Positions, ReadsForward
      <3>3. QED
        BY <1>10, <3>2
    <2>3. QED
      BY <2>1, <2>2 DEF Within
  <1>12. Heading(cmd, clause, k)'
    BY <1>5, <1>7, <1>8, <1>11 DEF Heading
  <1>13. Open'
    BY <1>5, <1>8, <1>9, <1>10, <1>12 DEF Open
  <1>14. Current(clause)'
    BY <1>2, <1>5, <1>8, <1>9, <1>12 DEF Current
  <1>15. SetOnly(file, cmd')
    <2> SUFFICES ASSUME NEW f \in OptionClauses \cup SQLClauses, NEW p \in Texts(cmd', f)
                 PROVE  IsSetText(file, p)
      BY DEF SetOnly
    <2>1. \A q \in Texts(cmd, f) : IsSetText(file, q)
      BY DEF ClauseInv, Headed, SetOnly
    <2>2. f \in Fields
      BY DEF Fields
    <2>3. QED
      BY <1>3, <2>1, <2>2 DEF Within
  <1>16. Done'
    BY DoneKept DEF ClauseInv, Headed
  <1>17. \A f \in ClauseFields : Current(f)'
    BY <1>4, <1>5, <1>14
  <1>18. Headed'
    BY <1>5, <1>13, <1>15, <1>16, <1>17 DEF Headed
  <1>19. \A f \in Fields : Texts(cmd, f) \subseteq Texts(cmd', f)
    BY <1>3 DEF Within
  <1>20. Places'
    BY PlacesStep DEF ClauseInv
  <1>21. Accounted'
    BY <1>19, AccountedStep, HeldGrows DEF ClauseInv
  <1>22. QED
    BY <1>18, <1>20, <1>21 DEF ClauseInv


\* The cursor is at a keyword and leaves it.
Begins(new) ==
    /\ rest = "" /\ clause = "" /\ state \in Clauses /\ file[pos] = state
    /\ pos < pos' /\ pos \notin new

LEMMA BeginsForward ==
    ASSUME Types, NEW new, Reads(new), Begins(new)
    PROVE  /\ pos < pos' /\ pos \in 1..pos /\ pos \in 1..(pos' - 1)
           /\ \A p \in new : p \in Nat /\ pos < p
           /\ \A k \in 1..(pos - 1) : \A i \in k..pos : i = pos \/ i \in k..(pos - 1)
  <1>1. pos < pos' /\ pos \notin new
    BY DEF Begins
  <1>2. \A p \in new : p # pos
    BY <1>1
  <1>3. QED
    BY <1>1, <1>2, Positions, ReadsForward

\* A clause that replaces the texts of the one at k leaves them accounted for.
LEMMA ReplacedNow ==
    ASSUME Types, Places, NEW new, Reads(new), Begins(new),
           NEW f \in ClauseFields, NEW k \in 1..(pos - 1),
           Heading(cmd, f, k), OneCommand(file, k, pos - 1), SameClause(k, pos),
           NEW p \in 1..(pos - 1), p \in Texts(cmd, f)
    PROVE  file[p] \in Words \/ ReplacedSoFar(p)'
  <1>1. CASE file[p] \in Clauses
    BY <1>1 DEF Words
  <1>2. CASE file[p] \notin Clauses
    <2>1. file[k] \in KeywordsOf(f) /\ ~Held(k) /\ Follow(file, cmd, f, k)
      BY DEF Heading
    <2>2. k < p
      BY <2>1 DEF Follow
    <2>3. \A i \in (k + 1)..(p - 1) : SetInText(file, cmd, f, i)
      BY <2>1 DEF Follow
    <2>4. \A i \in (k + 1)..p : file[i] \in Clauses => file[i] = "SET"
      <3> TAKE i \in (k + 1)..p
      <3>1. i = p \/ i \in (k + 1)..(p - 1)
        BY <2>2
      <3>2. QED
        BY <1>2, <2>3, <3>1 DEF SetInText
    <2>5. ~Held(pos)
      BY DEF Places, Begins
    <2>6. PICK q \in 1..pos : q = pos
      BY BeginsForward
    <2>7. ~Held(k)' /\ ~Held(q)'
      <3>1. pos \notin new
        BY DEF Begins
      <3>2. QED
        BY <2>1, <2>5, <2>6, <3>1, KeywordKept, StaysFree
    <2>8. file[pos] # ";" /\ file[k] \in Clauses /\ file[pos] \in Clauses
      BY <2>1 DEF Clauses, ValueClauses, OptionClauses, SQLClauses, KeywordsOf, ClauseFields, Begins
    <2>9. OneCommand(file, k, pos)
      <3> SUFFICES ASSUME NEW i \in k..pos
                   PROVE  file[i] # ";"
        BY DEF OneCommand
      <3>1. i = pos \/ i \in k..(pos - 1)
        BY BeginsForward
      <3>2. QED
        BY <2>8, <3>1 DEF OneCommand
    <2>10. file' = file
      BY DEF Reads
    <2>11. q \in (p + 1)..(pos' - 1) /\ k \in 1..(p - 1)
      BY <2>2, <2>6, BeginsForward, Positions, ReadsForward
    <2>12. SameClause(k, q)'
      BY <2>6, <2>10 DEF SameClause
    <2>13. /\ {file'[k], file'[q]} \subseteq Clauses /\ ~Held(k)' /\ ~Held(q)'
           /\ OneCommand(file', k, q)
      BY <2>6, <2>7, <2>8, <2>9, <2>10
    <2>14. \A i \in (k + 1)..p : file'[i] \in Clauses => file'[i] = "SET"
      BY <2>4, <2>10
    <2>15. QED
      BY <2>11, <2>12, <2>13, <2>14 DEF ReplacedSoFar
  <1>3. QED
    BY <1>1, <1>2

\* The keyword at the cursor begins the texts of f.
LEMMA HeadingNow ==
    ASSUME Types, Places, NEW new, Reads(new), Begins(new),
           NEW f \in ClauseFields, state \in KeywordsOf(f), Texts(cmd', f) = new,
           \A p \in new : \A i \in (pos + 1)..(p - 1) : file[i] \notin Clauses
    PROVE  \E k \in 1..(pos' - 1) :
              k = pos /\ file'[k] \in KeywordsOf(f) /\ ~Held(k)' /\ Follow(file', cmd', f, k)
  <1>1. ~Held(pos) /\ pos \notin new
    BY DEF Places, Begins
  <1>2. \A k \in 1..pos : k = pos => ~Held(k)'
    BY <1>1, StaysFree
  <1>3. Follow(file, cmd', f, pos)
    <2> SUFFICES ASSUME NEW p \in new
                 PROVE  pos < p /\ \A i \in (pos + 1)..(p - 1) : SetInText(file, cmd', f, i)
      BY DEF Follow
    <2>1. pos < p
      BY BeginsForward
    <2>2. QED
      BY <2>1 DEF SetInText
  <1>4. file' = file /\ file[pos] = state
    BY DEF Reads, Begins
  <1>5. QED
    BY <1>2, <1>3, <1>4, BeginsForward

\* A step that begins a clause of options or statements.
Opens(new) ==
    /\ state \in OptionClauses \cup SQLClauses /\ clause' \in {"", state}
    /\ \A f \in Fields \ {state} : cmd'[f] = cmd[f]
    /\ Texts(cmd', state) = new
    /\ OneCommand(file, pos, pos' - 1)
    /\ \A i \in (pos + 1)..(pos' - 1) : file[i] \notin Clauses
    /\ \A p \in new : file[p] \notin Clauses /\ \A i \in (pos + 1)..(p - 1) : file[i] \notin Clauses

\* The texts a step leaves as they are stay held.
LEMMA HeldElsewhere ==
    ASSUME NEW new, Reads(new), NEW p, Held(p),
           \A f \in Fields : p \in Texts(cmd, f) => p \in Texts(cmd', f)
    PROVE  Held(p)'
  <1>1. CASE InText(cmd, p)
    BY <1>1 DEF Held, InText
  <1>2. CASE \E j \in 1..Len(cmds) : InText(cmds[j], p)
    BY <1>2 DEF Held, Reads
  <1>3. QED
    BY <1>1, <1>2 DEF Held

LEMMA OpensStep ==
    ASSUME Types, ClauseInv, NEW new, Reads(new), Begins(new), Opens(new)
    PROVE  ClauseInv'
  <1>1. /\ ClauseFields \subseteq Fields /\ "table" \in ClauseFields
        /\ state \in ClauseFields /\ state \notin {"", "table", "schema"} /\ KeywordsOf(state) = {state}
    BY DEF ClauseFields, Fields, KeywordsOf, Opens, OptionClauses, SQLClauses
  <1>2. ASSUME NEW f \in Fields \ {state}
        PROVE  Texts(cmd', f) = Texts(cmd, f)
    <2>1. cmd'[f] = cmd[f]
      BY DEF Opens
    <2>2. QED
      BY <2>1, SameTexts
  <1>3. file' = file /\ file[pos] = state
    BY DEF Reads, Begins
  <1>4. ASSUME NEW f \in ClauseFields \ {state}
        PROVE  Current(f)'
    <2>1. f \in Fields /\ "table" \in Fields /\ "table" # state
      BY <1>1
    <2>2. Texts(cmd', f) = Texts(cmd, f) /\ Texts(cmd', "table") = Texts(cmd, "table")
      BY <1>2, <2>1
    <2>3. Current(f)
      BY DEF ClauseInv, Headed
    <2>4. QED
      BY <2>1, <2>2, <2>3, CurrentKept
  <1>5. PICK k \in 1..(pos' - 1) :
           k = pos /\ file'[k] \in KeywordsOf(state) /\ ~Held(k)' /\ Follow(file', cmd', state, k)
    <2>1. state \in KeywordsOf(state) /\ Texts(cmd', state) = new
      BY <1>1 DEF Opens
    <2>2. \A p \in new : \A i \in (pos + 1)..(p - 1) : file[i] \notin Clauses
      BY DEF Opens
    <2>3. Places
      BY DEF ClauseInv
    <2>4. QED
      BY <1>1, <2>1, <2>2, <2>3, HeadingNow
  <1>6. OneCommand(file', k, pos' - 1)
    BY <1>3, <1>5 DEF Opens
  <1>7. ASSUME NEW f, f = state
        PROVE  Current(f)'
    <2>1. file'[k] \in KeywordsOf(f) /\ Follow(file', cmd', f, k) /\ f # "schema"
      BY <1>1, <1>5, <1>7
    <2>2. QED
      BY <1>5, <1>6, <2>1 DEF Current, Heading
  <1>8. Open'
    <2>1. \A i \in (k + 1)..(pos' - 1) : SetInText(file', cmd', clause', i)
      BY <1>3, <1>5 DEF Opens, SetInText
    <2>2. clause' # "" => clause' = state
      BY DEF Opens
    <2>3. QED
      BY <1>5, <1>6, <2>1, <2>2 DEF Open, Heading
  <1>9. SetOnly(file', cmd')
    <2> SUFFICES ASSUME NEW f \in OptionClauses \cup SQLClauses, NEW p \in Texts(cmd', f)
                 PROVE  IsSetText(file, p)
      BY <1>3 DEF SetOnly
    <2>1. CASE f = state
      BY <2>1 DEF Opens, IsSetText
    <2>2. CASE f # state
      <3>1. f \in Fields
        BY DEF Fields
      <3>2. p \in Texts(cmd, f)
        BY <1>2, <2>2, <3>1
      <3>3. QED
        BY <3>2 DEF ClauseInv, Headed, SetOnly
    <2>3. QED
      BY <2>1, <2>2
  <1>10. Done'
    BY DoneKept DEF ClauseInv, Headed
  <1>11. \A f \in ClauseFields : Current(f)'
    BY <1>4, <1>7
  <1>12. Headed'
    BY <1>8, <1>9, <1>10, <1>11 DEF Headed
  <1>13. Places'
    BY PlacesStep DEF ClauseInv
  <1>14. ASSUME NEW p \in 1..(pos - 1), Held(p)
         PROVE  file[p] \in Words \/ Held(p)' \/ ReplacedSoFar(p)'
    <2>1. CASE p \in Texts(cmd, state)
      <3>1. Current(state)
        BY <1>1 DEF ClauseInv, Headed
      <3>2. PICK q \in 1..(pos - 1) : Heading(cmd, state, q) /\ OneCommand(file, q, pos - 1)
        BY <2>1, <3>1 DEF Current
      <3>3. SameClause(q, pos)
        BY <1>1, <1>3, <3>2 DEF SameClause, Heading
      <3>4. QED
        BY <1>1, <2>1, <3>2, <3>3, ReplacedNow DEF ClauseInv
    <2>2. CASE p \notin Texts(cmd, state)
      BY <1>2, <1>14, <2>2, HeldElsewhere
    <2>3. QED
      BY <2>1, <2>2
  <1>15. Accounted'
    BY <1>14, AccountedStep DEF ClauseInv
  <1>16. QED
    BY <1>12, <1>13, <1>15 DEF ClauseInv

\* A step that reads a TARGET clause.
Targets(new) ==
    /\ state \in ValueClauses /\ clause' = ""
    /\ \A f \in Fields \ {"schema", "table"} : cmd'[f] = cmd[f]
    /\ Texts(cmd', "schema") = new
    /\ state = "TARGETTABLE" => Texts(cmd', "table") = new
    /\ state = "TARGETSCHEMA" => cmd'["table"] = cmd["table"]
    /\ OneCommand(file, pos, pos' - 1)
    /\ \A p \in new : \A i \in (pos + 1)..(p - 1) : file[i] \notin Clauses

LEMMA TargetsStep ==
    ASSUME Types, ClauseInv, NEW new, Reads(new), Begins(new), Targets(new)
    PROVE  ClauseInv'
  <1>1. /\ ClauseFields \subseteq Fields /\ {"table", "schema"} \subseteq ClauseFields
        /\ ClauseFields \ {"table", "schema"} = OptionClauses \cup SQLClauses
        /\ KeywordsOf("schema") = ValueClauses /\ KeywordsOf("table") = {"TARGETTABLE"}
    BY DEF ClauseFields, Fields, KeywordsOf, OptionClauses, SQLClauses
  <1>2. ASSUME NEW f \in Fields \ {"schema", "table"}
        PROVE  Texts(cmd', f) = Texts(cmd, f)
    <2>1. cmd'[f] = cmd[f]
      BY DEF Targets
    <2>2. QED
      BY <2>1, SameTexts
  <1>3. file' = file /\ file[pos] = state /\ state \in {"TARGETTABLE", "TARGETSCHEMA"}
    BY DEF Reads, Begins, Targets, ValueClauses
  <1>4. ASSUME state = "TARGETSCHEMA"
        PROVE  Texts(cmd', "table") = Texts(cmd, "table")
    <2>1. cmd'["table"] = cmd["table"]
      BY <1>4 DEF Targets
    <2>2. QED
      BY <2>1, SameTexts
  <1>5. Places /\ \A f \in ClauseFields : Current(f)
    BY DEF ClauseInv, Headed
  <1>6. ASSUME NEW f \in ClauseFields, state \in KeywordsOf(f), Texts(cmd', f) = new,
               f = "schema" /\ state = "TARGETTABLE" => Texts(cmd', "table") = new
        PROVE  Current(f)'
    <2>1. \A p \in new : \A i \in (pos + 1)..(p - 1) : file[i] \notin Clauses
      BY DEF Targets
    <2>2. PICK k \in 1..(pos' - 1) :
             k = pos /\ file'[k] \in KeywordsOf(f) /\ ~Held(k)' /\ Follow(file', cmd', f, k)
      BY <1>5, <1>6, <2>1, HeadingNow
    <2>3. OneCommand(file', k, pos' - 1)
      BY <1>3, <2>2 DEF Targets
    <2>4. f = "schema" /\ file'[k] = "TARGETTABLE" => Texts(cmd', "schema") \subseteq Texts(cmd', "table")
      BY <1>3, <1>6, <2>2
    <2>5. QED
      BY <2>2, <2>3, <2>4 DEF Current, Heading
  <1>7. Current("schema")'
    BY <1>1, <1>3, <1>6 DEF Targets
  <1>8. Current("table")'
    <2>1. CASE state = "TARGETTABLE"
      BY <1>1, <1>3, <1>6, <2>1 DEF Targets
    <2>2. CASE state = "TARGETSCHEMA"
      BY <1>1, <1>4, <1>5, <2>2, CurrentKept
    <2>3. QED
      BY <1>3, <2>1, <2>2
  <1>9. ASSUME NEW f \in OptionClauses \cup SQLClauses
        PROVE  Current(f)'
    <2>1. f \in Fields \ {"schema", "table"} /\ Current(f)
      BY <1>1, <1>5
    <2>2. QED
      BY <1>2, <2>1, CurrentKept
  <1>10. \A f \in ClauseFields : Current(f)'
    BY <1>7, <1>8, <1>9 DEF ClauseFields
  <1>11. Open'
    BY DEF Open, Targets
  <1>12. SetOnly(file', cmd')
    BY <1>1, <1>2, <1>3 DEF SetOnly, ClauseInv, Headed
  <1>13. Done'
    BY DoneKept DEF ClauseInv, Headed
  <1>14. Headed'
    BY <1>10, <1>11, <1>12, <1>13 DEF Headed
  <1>15. Places'
    BY PlacesStep DEF ClauseInv
  <1>16. ASSUME NEW f \in {"schema", "table"}, NEW p \in 1..(pos - 1), p \in Texts(cmd, f), p \notin Texts(cmd', f)
         PROVE  file[p] \in Words \/ Held(p)' \/ ReplacedSoFar(p)'
    <2>1. PICK q \in 1..(pos - 1) :
             /\ Heading(cmd, f, q) /\ OneCommand(file, q, pos - 1)
             /\ f = "schema" /\ file[q] = "TARGETTABLE" => Texts(cmd, "schema") \subseteq Texts(cmd, "table")
      BY <1>1, <1>5, <1>16 DEF Current
    <2>2. file[q] \in KeywordsOf(f)
      BY <2>1 DEF Heading
    <2>3. CASE SameClause(q, pos)
      BY <1>1, <1>5, <1>16, <2>1, <2>3, ReplacedNow
    <2>4. CASE ~SameClause(q, pos)
      <3>1. file[q] \in {"TARGETTABLE", "TARGETSCHEMA"}
        BY <1>1, <1>16, <2>2 DEF ValueClauses
      <3>2. state = "TARGETSCHEMA" /\ file[q] = "TARGETTABLE"
        BY <1>3, <2>4, <3>1 DEF SameClause
      <3>3. f = "schema"
        BY <1>4, <1>16, <3>2
      <3>4. p \in Texts(cmd', "table")
        BY <1>4, <1>16, <2>1, <3>2, <3>3
      <3>5. InText(cmd', p)
        BY <1>1, <3>4 DEF InText
      <3>6. QED
        BY <3>5 DEF Held
    <2>5. QED
      BY <2>3, <2>4
  <1>17. ASSUME NEW p \in 1..(pos - 1), Held(p)
         PROVE  file[p] \in Words \/ Held(p)' \/ ReplacedSoFar(p)'
    <2>1. CASE \E f \in {"schema", "table"} : p \in Texts(cmd, f) /\ p \notin Texts(cmd', f)
      BY <1>16, <2>1
    <2>2. CASE \A f \in {"schema", "table"} : p \in Texts(cmd, f) => p \in Texts(cmd', f)
      BY <1>2, <1>17, <2>2, HeldElsewhere
    <2>3. QED
      BY <2>1, <2>2
  <1>18. Accounted'
    BY <1>17, AccountedStep DEF ClauseInv
  <1>19. QED
    BY <1>14, <1>15, <1>18 DEF ClauseInv


----------------------------------------------------------------------------
(* The actions *)

LEMMA EndsAtIsEnds ==
    ASSUME NEW p
    PROVE  EndsAt(p) <=> Ends(file, p)
  BY DEF EndsAt, Ends

\* advanceState finds a clause or none.
LEMMA AdvanceStateStops ==
    ASSUME NEW p, NEW left
    PROVE  /\ AdvanceState(p, left) \in {"done"} \cup Clauses
           /\ AdvanceState(p, left) # "done" =>
                 left = "" /\ ~Ends(file, p) /\ file[p] = AdvanceState(p, left)
  BY EndsAtIsEnds DEF AdvanceState

LEMMA ShortSeqs ==
    ASSUME NEW S, NEW t \in S
    PROVE  <<>> \in Seq(S) /\ <<t>> \in Seq(S)
  OBVIOUS

LEMMA LongerSeq ==
    ASSUME NEW S, NEW s \in Seq(S), NEW t \in S
    PROVE  Append(s, t) \in Seq(S)
  OBVIOUS

\* Arithmetic of positions.
LEMMA NotPast ==
    ASSUME NEW n \in Nat, NEW p \in Nat, NEW v \in (p + 1)..(n + 1), ~(v > n)
    PROVE  v <= n /\ v \in (p + 1)..n /\ v \in 1..n /\ v \in Int
  OBVIOUS

LEMMA Through ==
    ASSUME NEW p \in Int, NEW a \in Int, NEW b \in Int
    PROVE  \A i \in p..b : i \in p..(a - 1) \/ i \in a..b
  OBVIOUS

LEMMA Beyond ==
    ASSUME NEW n \in Nat, NEW p \in Nat, NEW s \in p..n, NEW q \in (s + 1)..(n + 1)
    PROVE  /\ q \in p..(n + 1) /\ q # p
           /\ \A i \in p..(q - 1) : i = s \/ i \in p..(s - 1) \/ i \in (s + 1)..(q - 1)
  OBVIOUS

LEMMA StillAhead ==
    ASSUME NEW n \in Nat, NEW p \in Nat, NEW s \in p..n, NEW q \in (s + 1)..(n + 1), NEW e \in 1..n,
           e \notin p..s, s \notin (e + 1)..n, e \notin (s + 1)..(q - 1)
    PROVE  e \in q..n
  OBVIOUS

LEMMA InFile ==
    ASSUME Types, NEW q \in pos..(Len(file) + 1), q <= Len(file)
    PROVE  q \in pos..Len(file) /\ q \in Int
  BY Positions

LEMMA CursorRange ==
    ASSUME Types
    PROVE  pos \in pos..(Len(file) + 1) /\ pos..(pos - 1) = {}
  BY Positions

LEMMA Before ==
    /\ \A p \in Int, e \in Int : \A i \in p..(e - 1) : i \in p..e /\ (i # p => i > p /\ i - 1 \in p..(e - 1))
    /\ \A n \in Nat : \A p \in 1..(n + 1) : \A i \in p..(n + 1) : ~(i > n) => i \in 1..n
  OBVIOUS

LEMMA HereOrNext ==
    ASSUME NEW n \in Nat, NEW e \in 1..(n + 1)
    PROVE  /\ e \in e..(n + 1) /\ e..(e - 1) = {}
           /\ e \in 1..n => e + 1 \in e..(n + 1) /\ \A i \in e..((e + 1) - 1) : i = e
  OBVIOUS

LEMMA ThreeSteps ==
    ASSUME NEW n \in Nat, NEW p \in Nat, NEW e \in p..(n + 1), NEW s \in e..(n + 1), NEW q \in s..(n + 1)
    PROVE  /\ q \in p..(n + 1) /\ p..(e - 1) \subseteq p..q /\ q \notin p..(e - 1)
           /\ \A i \in p..(q - 1) : i \in p..(e - 1) \/ i \in e..(s - 1) \/ i \in s..(q - 1)
  OBVIOUS

LEMMA CursorInFile ==
    ASSUME Types, ~(pos > Len(file))
    PROVE  pos <= Len(file) /\ pos \in pos..Len(file)
  BY Positions

LEMMA Onward ==
    ASSUME Types, NEW q \in pos..(Len(file) + 1)
    PROVE  q \in 1..(Len(file) + 1)
  BY Positions

LEMMA AheadOn ==
    ASSUME Types, NEW q \in pos..(Len(file) + 1), Ahead(file, pos), OneCommand(file, pos, q - 1)
    PROVE  Ahead(file, q)
  <1>1. PICK e \in pos..Len(file) : file[e] = ";"
    BY DEF Ahead
  <1>2. e \notin pos..(q - 1)
    BY <1>1 DEF OneCommand
  <1>3. e \in q..Len(file)
    BY <1>2, Positions
  <1>4. QED
    BY <1>1, <1>3 DEF Ahead

\* A step that leaves parseCommand within the command.
Goes ==
    /\ state \notin {"split", "init", "end"} /\ state' \notin {"split", "init", "end"}
    /\ file' = file /\ cmds' = cmds /\ result' = result
    /\ pos' \in pos..(Len(file) + 1) /\ OneCommand(file, pos, pos' - 1)

LEMMA EndingStep ==
    ASSUME Types, Ending, Goes
    PROVE  Ending'
  <1>1. \A q : q \in pos..(Len(file) + 1) /\ OneCommand(file, pos, q - 1) /\ Ahead(file, pos) => Ahead(file, q)
    BY AheadOn
  <1>2. pos' \in pos..(Len(file) + 1) /\ OneCommand(file, pos, pos' - 1) /\ file' = file
    BY DEF Goes
  <1>3. Ahead(file, pos) => Ahead(file', pos')
    BY <1>1, <1>2
  <1>4. Closed(file) => Closed(file')
    BY <1>2
  <1>5. QED
    BY <1>3, <1>4 DEF Ending, Goes

LEMMA TypesStep ==
    ASSUME Types, file' = file, cmds' = cmds, result' = result,
           pos' \in pos..(Len(file) + 1), rest' \in {"", "rest"},
           cmd' \in [Fields -> Seq(Int \X Int)],
           clause' \in OptionClauses \cup SQLClauses \cup {""},
           state' \in {"split", "init", "type", "from", "into", "done", "end"} \cup Clauses
    PROVE  Types'
  <1>1. \A q \in pos..(Len(file) + 1) : q \in 1..(Len(file) + 1)
    BY Onward
  <1>2. pos' \in 1..(Len(file) + 1)
    BY <1>1, Zenon
  <1>3. QED
    BY <1>2 DEF Types

\* An error ends the parser.
LEMMA FailStep ==
    ASSUME Types, Control, clause = "", Fail
    PROVE  IInv'
  <1>1. /\ result' = "error" /\ state' = "end" /\ cmds' = <<>> /\ file' = file /\ pos' = pos
        /\ rest' = rest /\ clause' = clause /\ cmd' = cmd
    BY DEF Fail
  <1>2. Types'
    <2>1. <<>> \in Seq([Fields -> Seq(Int \X Int)])
      BY ShortSeqs DEF Types
    <2>2. QED
      BY <1>1, <2>1 DEF Types
  <1>3. Filled'
    BY <1>1 DEF Control, Filled
  <1>4. Pointed'
    BY <1>1 DEF Control, Pointed, Clauses, OptionClauses, SQLClauses, ValueClauses
  <1>5. Ending'
    BY <1>1 DEF Control, Ending
  <1>6. QED
    BY <1>1, <1>2, <1>3, <1>4, <1>5 DEF IInv, Control

\* What a reader of one value reads.
Span(v) == Value(v)[1]..Value(v)[2]

LEMMA SpanOf ==
    ASSUME NEW v, NEW a, NEW b, Value(v) = <<a, b>>
    PROVE  Span(v) = a..b
  BY DEF Span

LEMMA ReadsValue ==
    ASSUME Types, pos <= Len(file), NEW v, v = Skip(pos + 1), ~EndsAt(v)
    PROVE  /\ v \in (pos + 1)..Len(file)
           /\ Value(v) \in Int \X Int /\ Span(v) \subseteq {v}
           /\ AfterValue(v) \in v..(Len(file) + 1)
           /\ AfterValue(v) \in Span(v) => Rest(v) # ""
           /\ Rest(v) \in {"", "rest"}
           /\ Rest(v) # "" => ~Ends(file, AfterValue(v))
           /\ \A i \in (pos + 1)..(AfterValue(v) - 1) : i \in Span(v) \/ file[i] \in {"NL", ","}
           /\ \A i \in (pos + 1)..(AfterValue(v) - 1) : file[i] # ";"
           /\ \A i \in (pos + 1)..(v - 1) : file[i] = "NL"
  <1>1. Len(file) \in Nat /\ pos + 1 \in 1..(Len(file) + 1)
    BY Positions
  <1>2. /\ v \in (pos + 1)..(Len(file) + 1)
        /\ \A i \in (pos + 1)..(v - 1) : file[i] = "NL"
    BY <1>1, SkipStops
  <1>3. ~(v > Len(file)) /\ file[v] # ";"
    BY Zenon DEF EndsAt
  <1>4. v <= Len(file) /\ v \in (pos + 1)..Len(file) /\ v \in 1..Len(file) /\ v \in Int
    BY <1>2, <1>3, NotPast, Positions, Zenon
  <1>5. /\ AfterValue(v) \in v..(Len(file) + 1)
        /\ Value(v) \in {<<v, v>>, <<v, v - 1>>}
        /\ Value(v) = <<v, v - 1>> => file[v] = "," /\ AfterValue(v) = v /\ Rest(v) = ""
        /\ Value(v) = <<v, v>> /\ AfterValue(v) = v => Rest(v) = "rest"
        /\ Rest(v) = "rest" => AfterValue(v) = v
        /\ Rest(v) \in {"", "rest"}
        /\ \A i \in v..(AfterValue(v) - 1) : i = v \/ file[i] = "NL"
    BY <1>1, <1>4, ValueStops
  <1>6. \/ Value(v) = <<v, v>> /\ Span(v) = {v}
        \/ Value(v) = <<v, v - 1>> /\ Span(v) = {}
    <2>1. CASE Value(v) = <<v, v>>
      <3>1. Span(v) = v..v
        BY <2>1, SpanOf
      <3>2. QED
        BY <1>4, <2>1, <3>1
    <2>2. CASE Value(v) = <<v, v - 1>>
      <3>1. Span(v) = v..(v - 1)
        BY <2>2, SpanOf
      <3>2. QED
        BY <1>4, <2>2, <3>1
    <2>3. QED
      BY <1>5, <2>1, <2>2
  <1>7. Value(v) \in Int \X Int
    BY <1>4, <1>6
  <1>8. AfterValue(v) \in Span(v) => Rest(v) # ""
    BY <1>5, <1>6
  <1>9. Rest(v) # "" => ~Ends(file, AfterValue(v))
    BY <1>3, <1>4, <1>5, EndsAtIsEnds
  <1>10. \A i \in (pos + 1)..(AfterValue(v) - 1) :
            i \in (pos + 1)..(v - 1) \/ i \in v..(AfterValue(v) - 1)
    <2>1. AfterValue(v) \in v..(Len(file) + 1)
      BY <1>5
    <2>2. pos + 1 \in Int /\ AfterValue(v) - 1 \in Int
      BY <1>1, <2>1
    <2>3. QED
      BY <1>4, <2>2, Through
  <1>11. \A i \in (pos + 1)..(AfterValue(v) - 1) : i \in Span(v) \/ file[i] \in {"NL", ","}
    BY <1>2, <1>5, <1>6, <1>10
  <1>12. \A i \in (pos + 1)..(AfterValue(v) - 1) : file[i] # ";"
    BY <1>2, <1>3, <1>5, <1>10
  <1>13. QED
    BY <1>2, <1>4, <1>5, <1>6, <1>7, <1>8, <1>9, <1>11, <1>12

\* The cursor leaves one token and passes the line ends after it.
LEMMA PassesOne ==
    ASSUME Types, NEW p \in pos..Len(file)
    PROVE  /\ Skip(p + 1) \in (p + 1)..(Len(file) + 1) /\ Skip(p + 1) \in pos..(Len(file) + 1)
           /\ \A i \in (p + 1)..(Skip(p + 1) - 1) : file[i] = "NL"
           /\ \A i \in p..(Skip(p + 1) - 1) : i = p \/ file[i] = "NL"
  <1>1. Len(file) \in Nat /\ p + 1 \in 1..(Len(file) + 1)
    BY Positions
  <1>2. /\ Skip(p + 1) \in (p + 1)..(Len(file) + 1)
        /\ \A i \in (p + 1)..(Skip(p + 1) - 1) : file[i] = "NL"
    BY <1>1, SkipStops
  <1>3. Skip(p + 1) \in (p + 1)..(Len(file) + 1) /\ p \in Int /\ pos \in Int
    BY <1>2, Positions
  <1>4. Skip(p + 1) \in pos..(Len(file) + 1) /\ \A i \in p..(Skip(p + 1) - 1) : i = p \/ i \in (p + 1)..(Skip(p + 1) - 1)
    BY <1>1, <1>3
  <1>5. QED
    BY <1>2, <1>4

\* The token at the cursor of a command that goes on is no part of another.
LEMMA NotAtEnd ==
    ASSUME Types, ~AtEnd
    PROVE  /\ rest = "" => pos <= Len(file) /\ pos \in pos..Len(file) /\ file[pos] # ";" /\ Tok = file[pos]
           /\ rest # "" => Tok = "rest"
  <1>1. rest \in {"", "rest"}
    BY DEF Types
  <1>2. ASSUME ~(pos > Len(file))
        PROVE  pos <= Len(file) /\ pos \in pos..Len(file)
    BY <1>2, Positions
  <1>3. QED
    BY <1>1, <1>2, Zenon DEF AtEnd, EndsAt, Tok

\* What a step outside the clauses changes.
Outside ==
    /\ clause' = ""
    /\ \A f \in ClauseFields : cmd'[f] = cmd[f]
    /\ \A f \in Fields : Texts(cmd, f) \subseteq Texts(cmd', f)

\* A step of the parser that reads texts into a clause or outside of any.
Moves == \E new : Reads(new) /\ (Outside \/ Within(new) \/ (Begins(new) /\ (Opens(new) \/ Targets(new))))

LEMMA MovesStep ==
    ASSUME Types, ClauseInv, Moves
    PROVE  ClauseInv'
  <1>1. PICK new : Reads(new) /\ (Outside \/ Within(new) \/ (Begins(new) /\ (Opens(new) \/ Targets(new))))
    BY DEF Moves
  <1>2. CASE Outside
    BY <1>1, <1>2, OutsideStep DEF Outside
  <1>3. CASE Within(new)
    BY <1>1, <1>3, WithinStep
  <1>4. CASE Begins(new) /\ Opens(new)
    BY <1>1, <1>4, OpensStep
  <1>5. CASE Begins(new) /\ Targets(new)
    BY <1>1, <1>5, TargetsStep
  <1>6. QED
    BY <1>1, <1>2, <1>3, <1>4, <1>5

\* An assignment to one field of the command.
LEMMA SetField ==
    ASSUME Types, NEW f \in Fields, NEW s \in Seq(Int \X Int), cmd' = [cmd EXCEPT ![f] = s]
    PROVE  /\ cmd' \in [Fields -> Seq(Int \X Int)] /\ cmd'[f] = s
           /\ \A g \in Fields \ {f} : cmd'[g] = cmd[g] /\ Texts(cmd', g) = Texts(cmd, g)
  <1>1. cmd \in [Fields -> Seq(Int \X Int)]
    BY DEF Types
  <1>2. cmd' \in [Fields -> Seq(Int \X Int)] /\ cmd'[f] = s
    BY <1>1
  <1>3. \A g \in Fields \ {f} : cmd'[g] = cmd[g]
    BY <1>1
  <1>4. ASSUME NEW g \in Fields \ {f}
        PROVE  Texts(cmd', g) = Texts(cmd, g)
    <2>1. cmd'[g] = cmd[g]
      BY <1>3
    <2>2. QED
      BY <2>1 DEF Texts
  <1>5. QED
    BY <1>2, <1>3, <1>4

LEMMA OneValue ==
    ASSUME NEW c, NEW f, NEW v, c[f] = <<Value(v)>>, Value(v) \in Int \X Int
    PROVE  Texts(c, f) = Span(v)
  <1>1. PICK a \in Int, b \in Int : Value(v) = <<a, b>>
    OBVIOUS
  <1>2. QED
    BY <1>1, OneText, SpanOf

\* Outside of the clauses no clause is open.
LEMMA NoClause ==
    ASSUME Types, Control, state \notin OptionClauses \cup SQLClauses
    PROVE  clause = ""
  BY DEF Types, Control, Pointed

\* ReadInto
LEMMA ReadIntoMoves ==
    ASSUME Types, Control, ReadInto, ~Fail
    PROVE  Types' /\ Control' /\ Moves
  <1> DEFINE v == Skip(pos + 1)
             new == Span(v)
  <1>1. /\ state = "into" /\ ~AtEnd /\ Tok = "INTO" /\ ~EndsAt(v)
        /\ cmd' = [cmd EXCEPT !["INTO"] = <<Value(v)>>]
        /\ pos' = AfterValue(v) /\ rest' = Rest(v)
        /\ state' = AdvanceState(AfterValue(v), Rest(v))
        /\ file' = file /\ clause' = clause /\ cmds' = cmds /\ result' = result
    BY DEF ReadInto
  <1>2. rest = "" /\ pos <= Len(file) /\ file[pos] = "INTO"
    BY <1>1, NotAtEnd
  <1>3. /\ v \in (pos + 1)..Len(file)
        /\ Value(v) \in Int \X Int /\ Span(v) \subseteq {v}
        /\ AfterValue(v) \in v..(Len(file) + 1)
        /\ AfterValue(v) \in Span(v) => Rest(v) # ""
        /\ Rest(v) \in {"", "rest"}
        /\ Rest(v) # "" => ~Ends(file, AfterValue(v))
        /\ \A i \in (pos + 1)..(AfterValue(v) - 1) : i \in Span(v) \/ file[i] \in {"NL", ","}
        /\ \A i \in (pos + 1)..(AfterValue(v) - 1) : file[i] # ";"
        /\ \A i \in (pos + 1)..(v - 1) : file[i] = "NL"
    BY <1>1, <1>2, ReadsValue
  <1> HIDE DEF v
  <1>4. AfterValue(v) \in pos..(Len(file) + 1) /\ Span(v) \subseteq pos..AfterValue(v) /\ AfterValue(v) # pos
    <2>1. v \in (pos + 1)..Len(file) /\ AfterValue(v) \in v..(Len(file) + 1) /\ Span(v) \subseteq {v}
      BY <1>3
    <2>2. QED
      BY <2>1, Positions
  <1>5. \A i \in pos..(AfterValue(v) - 1) : i = pos \/ i \in (pos + 1)..(AfterValue(v) - 1)
    <2>1. AfterValue(v) \in pos..(Len(file) + 1)
      BY <1>4
    <2>2. QED
      BY <2>1, Positions
  <1>6. /\ "INTO" \in Fields /\ "INTO" \notin ClauseFields /\ "INTO" # "skipped" /\ "skipped" \in Fields
        /\ ClauseFields \subseteq Fields
    BY DEF Fields, ClauseFields, OptionClauses, SQLClauses
  <1>7. <<Value(v)>> \in Seq(Int \X Int)
    BY <1>3, ShortSeqs
  <1>8. /\ cmd' \in [Fields -> Seq(Int \X Int)] /\ cmd'["INTO"] = <<Value(v)>>
        /\ \A g \in Fields \ {"INTO"} : cmd'[g] = cmd[g] /\ Texts(cmd', g) = Texts(cmd, g)
    BY <1>1, <1>6, <1>7, SetField
  <1>9. Texts(cmd', "INTO") = Span(v)
    <2>1. Value(v) \in Int \X Int /\ cmd'["INTO"] = <<Value(v)>>
      BY <1>3, <1>8
    <2>2. QED
      BY <2>1, OneValue, Zenon
  <1>10. cmd["INTO"] = <<>> /\ cmd["skipped"] = <<>>
    BY <1>1, <1>6 DEF Control, Filled
  <1>11. Texts(cmd, "INTO") = {}
    BY <1>10, NoTexts
  <1>12. clause = ""
    BY <1>1, NoClause DEF OptionClauses, SQLClauses
  <1>13. OneCommand(file, pos, AfterValue(v) - 1)
    BY <1>2, <1>3, <1>5 DEF OneCommand
  <1>14. \A i \in pos..(AfterValue(v) - 1) : file[i] \in Words \/ i \in Span(v)
    BY <1>2, <1>3, <1>5 DEF Words, Separators
  <1>15. Reads(Span(v))
    <2>1. \A f \in Fields : Texts(cmd', f) \subseteq Texts(cmd, f) \cup Span(v)
      BY <1>8, <1>9
    <2>2. \A i \in Span(v) : InText(cmd', i)
      BY <1>6, <1>9 DEF InText
    <2>3. pos' \in pos..(Len(file) + 1) /\ Span(v) \subseteq pos..pos' /\ pos' # pos /\ (pos' \in Span(v) => rest' # "")
      BY <1>1, <1>3, <1>4
    <2>4. QED
      BY <1>1, <1>4, <1>13, <1>14, <2>1, <2>2, <2>3 DEF Reads
  <1>16. Outside
    BY <1>1, <1>6, <1>8, <1>11, <1>12 DEF Outside
  <1>17. /\ state' \in {"done"} \cup Clauses
         /\ state' # "done" => rest' = "" /\ ~Ends(file', pos') /\ file'[pos'] = state'
    BY <1>1, AdvanceStateStops
  <1>18. Types'
    <2>1. /\ pos' \in pos..(Len(file) + 1) /\ rest' \in {"", "rest"}
          /\ clause' \in OptionClauses \cup SQLClauses \cup {""}
      BY <1>1, <1>3, <1>4, <1>12
    <2>2. QED
      BY <1>1, <1>8, <1>17, <2>1, TypesStep
  <1>19. Filled'
    BY <1>6, <1>8, <1>10, <1>17 DEF Filled, Clauses, OptionClauses, SQLClauses, ValueClauses
  <1>20. Pointed'
    BY <1>1, <1>3, <1>12, <1>17 DEF Pointed, Clauses, OptionClauses, SQLClauses, ValueClauses
  <1>21. Ending'
    <2>1. Goes
      BY <1>1, <1>4, <1>13, <1>17 DEF Goes, Clauses, OptionClauses, SQLClauses, ValueClauses
    <2>2. QED
      BY <2>1, EndingStep DEF Control
  <1>22. QED
    BY <1>15, <1>16, <1>18, <1>19, <1>20, <1>21 DEF Moves, Control

\* ReadFrom
LEMMA ReadFromMoves ==
    ASSUME Types, Control, ReadFrom, ~Fail
    PROVE  Types' /\ Control' /\ Moves
  <1> DEFINE v == Skip(pos + 1)
             l == AfterValue(v)
  <1>1. /\ state = "from" /\ ~AtEnd /\ Tok = "FROM" /\ ~EndsAt(v)
        /\ \/ /\ l <= Len(file) /\ file[l] = "list"
              /\ cmd' = [cmd EXCEPT !["FROM"] = <<Value(v)>>, !["columns"] = <<Value(l)>>]
              /\ pos' = Skip(l + 1) /\ rest' = ""
           \/ /\ cmd' = [cmd EXCEPT !["FROM"] = <<Value(v)>>]
              /\ pos' = l /\ rest' = Rest(v)
        /\ state' = "into"
        /\ file' = file /\ clause' = clause /\ cmds' = cmds /\ result' = result
    BY DEF ReadFrom
  <1>2. rest = "" /\ pos <= Len(file) /\ file[pos] = "FROM"
    BY <1>1, NotAtEnd
  <1>3. /\ v \in (pos + 1)..Len(file)
        /\ Value(v) \in Int \X Int /\ Span(v) \subseteq {v}
        /\ l \in v..(Len(file) + 1)
        /\ l \in Span(v) => Rest(v) # ""
        /\ Rest(v) \in {"", "rest"}
        /\ Rest(v) # "" => ~Ends(file, l)
        /\ \A i \in (pos + 1)..(l - 1) : i \in Span(v) \/ file[i] \in {"NL", ","}
        /\ \A i \in (pos + 1)..(l - 1) : file[i] # ";"
        /\ \A i \in (pos + 1)..(v - 1) : file[i] = "NL"
    BY <1>1, <1>2, ReadsValue
  <1> HIDE DEF v, l
  <1>4. l \in pos..(Len(file) + 1) /\ Span(v) \subseteq pos..l /\ l # pos
    <2>1. v \in (pos + 1)..Len(file) /\ l \in v..(Len(file) + 1) /\ Span(v) \subseteq {v}
      BY <1>3
    <2>2. QED
      BY <2>1, Positions
  <1>5. \A i \in pos..(l - 1) : i = pos \/ i \in (pos + 1)..(l - 1)
    <2>1. l \in pos..(Len(file) + 1)
      BY <1>4
    <2>2. QED
      BY <2>1, Positions
  <1>6. /\ {"FROM", "columns", "skipped"} \subseteq Fields \ ClauseFields
        /\ ClauseFields \subseteq Fields
    BY DEF Fields, ClauseFields, OptionClauses, SQLClauses
  <1>7. <<Value(v)>> \in Seq(Int \X Int)
    BY <1>3, ShortSeqs
  <1>8. cmd["FROM"] = <<>> /\ cmd["columns"] = <<>> /\ \A f \in Fields \ {"CSV", "FROM", "columns"} : cmd[f] = <<>>
    BY <1>1 DEF Control, Filled
  <1>9. Texts(cmd, "FROM") = {} /\ Texts(cmd, "columns") = {}
    BY <1>8, NoTexts
  <1>10. clause = ""
    BY <1>1, NoClause DEF OptionClauses, SQLClauses
  <1>11. OneCommand(file, pos, l - 1)
    BY <1>2, <1>3, <1>5 DEF OneCommand
  <1>12. \A i \in pos..(l - 1) : file[i] \in Words \/ i \in Span(v)
    BY <1>2, <1>3, <1>5 DEF Words, Separators
  \* The case without a list of columns
  <1>13. ASSUME cmd' = [cmd EXCEPT !["FROM"] = <<Value(v)>>], pos' = l, rest' = Rest(v)
         PROVE  Types' /\ Control' /\ Moves
    <2>1. /\ cmd' \in [Fields -> Seq(Int \X Int)] /\ cmd'["FROM"] = <<Value(v)>>
          /\ \A g \in Fields \ {"FROM"} : cmd'[g] = cmd[g] /\ Texts(cmd', g) = Texts(cmd, g)
      BY <1>6, <1>7, <1>13, SetField
    <2>2. Texts(cmd', "FROM") = Span(v)
      <3>1. Value(v) \in Int \X Int /\ cmd'["FROM"] = <<Value(v)>>
        BY <1>3, <2>1
      <3>2. QED
        BY <3>1, OneValue, Zenon
    <2>3. Reads(Span(v))
      <3>1. \A f \in Fields : Texts(cmd', f) \subseteq Texts(cmd, f) \cup Span(v)
        BY <2>1, <2>2
      <3>2. \A i \in Span(v) : InText(cmd', i)
        BY <1>6, <2>2 DEF InText
      <3>3. pos' \in pos..(Len(file) + 1) /\ Span(v) \subseteq pos..pos' /\ pos' # pos /\ (pos' \in Span(v) => rest' # "")
        BY <1>3, <1>4, <1>13
      <3>4. QED
        BY <1>1, <1>4, <1>11, <1>12, <1>13, <3>1, <3>2, <3>3 DEF Reads
    <2>4. Outside
      BY <1>1, <1>6, <1>9, <1>10, <2>1 DEF Outside
    <2>5. Types'
      <3>1. /\ pos' \in pos..(Len(file) + 1) /\ rest' \in {"", "rest"}
            /\ clause' \in OptionClauses \cup SQLClauses \cup {""}
        BY <1>1, <1>3, <1>4, <1>10, <1>13
      <3>2. QED
        BY <1>1, <2>1, <3>1, TypesStep
    <2>6. Filled'
      BY <1>1, <1>6, <1>8, <2>1 DEF Filled
    <2>7. Pointed'
      BY <1>1, <1>3, <1>10, <1>13 DEF Pointed, Clauses, OptionClauses, SQLClauses, ValueClauses
    <2>8. Ending'
      <3>1. Goes
        BY <1>1, <1>4, <1>11, <1>13 DEF Goes
      <3>2. QED
        BY <3>1, EndingStep DEF Control
    <2>9. QED
      BY <2>3, <2>4, <2>5, <2>6, <2>7, <2>8 DEF Moves, Control
  \* The case with one
  <1>14. ASSUME l <= Len(file), file[l] = "list", pos' = Skip(l + 1), rest' = "",
                cmd' = [cmd EXCEPT !["FROM"] = <<Value(v)>>, !["columns"] = <<Value(l)>>]
         PROVE  Types' /\ Control' /\ Moves
    <2> DEFINE new == Span(v) \cup {l}
    <2>1. l \in pos..Len(file) /\ l \in Int
      BY <1>4, <1>14, InFile, Zenon
    <2>2. /\ pos' \in (l + 1)..(Len(file) + 1) /\ pos' \in pos..(Len(file) + 1)
          /\ \A i \in l..(pos' - 1) : i = l \/ file[i] = "NL"
      BY <1>14, <2>1, PassesOne
    <2>3. new \subseteq pos..pos' /\ pos' \notin new /\ pos' # pos
      <3>1. pos' \in (l + 1)..(Len(file) + 1) /\ Span(v) \subseteq pos..l /\ l \in pos..Len(file)
        BY <1>4, <2>1, <2>2
      <3>2. QED
        BY <3>1, Positions
    <2>4. \A i \in pos..(pos' - 1) : i \in pos..(l - 1) \/ i \in l..(pos' - 1)
      <3>1. l \in Int /\ pos' - 1 \in Int /\ pos \in Int
        <4>1. pos' \in pos..(Len(file) + 1)
          BY <2>2
        <4>2. QED
          BY <2>1, <4>1, Positions
      <3>2. QED
        BY <3>1, Through
    <2>5. OneCommand(file, pos, pos' - 1)
      BY <1>11, <1>14, <2>2, <2>4 DEF OneCommand
    <2>6. \A i \in pos..(pos' - 1) : file[i] \in Words \/ i \in new
      BY <1>12, <2>2, <2>4 DEF Words, Separators
    <2>7. Value(l) = <<l, l>>
      BY <1>14 DEF Value
    <2>8. <<Value(l)>> \in Seq(Int \X Int)
      BY <2>1, <2>7, ShortSeqs
    <2>9. /\ cmd' \in [Fields -> Seq(Int \X Int)] /\ cmd'["FROM"] = <<Value(v)>> /\ cmd'["columns"] = <<<<l, l>>>>
          /\ \A g \in Fields \ {"FROM", "columns"} : cmd'[g] = cmd[g]
      <3>1. cmd \in [Fields -> Seq(Int \X Int)]
        BY DEF Types
      <3>2. QED
        BY <1>6, <1>7, <1>14, <2>7, <2>8, <3>1
    <2>10. Texts(cmd', "FROM") = Span(v)
      <3>1. Value(v) \in Int \X Int /\ cmd'["FROM"] = <<Value(v)>>
        BY <1>3, <2>9
      <3>2. QED
        BY <3>1, OneValue, Zenon
    <2>11. Texts(cmd', "columns") = {l}
      <3>1. \A c : c["columns"] = <<<<l, l>>>> => Texts(c, "columns") = {l}
        BY <2>1, OnePosition
      <3>2. QED
        BY <2>9, <3>1, Zenon
    <2>12. \A f \in Fields \ {"FROM", "columns"} : Texts(cmd', f) = Texts(cmd, f)
      BY <2>9 DEF Texts
    <2>13. Reads(new)
      <3>1. \A f \in Fields : Texts(cmd', f) \subseteq Texts(cmd, f) \cup new
        BY <2>10, <2>11, <2>12
      <3>2. \A i \in new : InText(cmd', i)
        BY <1>6, <2>10, <2>11 DEF InText
      <3> HIDE DEF new
      <3>3. QED
        BY <1>1, <2>2, <2>3, <2>5, <2>6, <3>1, <3>2 DEF Reads
    <2>14. Outside
      BY <1>1, <1>6, <1>9, <1>10, <2>9, <2>12 DEF Outside
    <2>15. Types'
      <3>1. /\ pos' \in pos..(Len(file) + 1) /\ rest' \in {"", "rest"}
            /\ clause' \in OptionClauses \cup SQLClauses \cup {""}
        BY <1>1, <1>10, <1>14, <2>2
      <3>2. QED
        BY <1>1, <2>9, <3>1, TypesStep
    <2>16. Filled'
      BY <1>1, <1>6, <1>8, <2>9 DEF Filled
    <2>17. Pointed'
      BY <1>1, <1>10, <1>14 DEF Pointed, Clauses, OptionClauses, SQLClauses, ValueClauses
    <2>18. Ending'
      <3>1. Goes
        BY <1>1, <2>2, <2>5 DEF Goes
      <3>2. QED
        BY <3>1, EndingStep DEF Control
    <2> HIDE DEF new
    <2>19. QED
      BY <2>13, <2>14, <2>15, <2>16, <2>17, <2>18 DEF Moves, Control
  <1>15. QED
    BY <1>1, <1>13, <1>14

\* ReadType
LEMMA ReadTypeMoves ==
    ASSUME Types, Control, ReadType, ~Fail
    PROVE  Types' /\ Control' /\ Moves
  <1>1. /\ state = "type" /\ ~AtEnd /\ Tok \in {"DATABASE", "CSV"}
        /\ cmd' = [cmd EXCEPT !["CSV"] = IF Tok = "CSV" THEN <<Value(pos)>> ELSE <<>>]
        /\ pos' = Skip(pos + 1) /\ state' = "from"
        /\ file' = file /\ rest' = rest /\ clause' = clause /\ cmds' = cmds /\ result' = result
    BY DEF ReadType
  <1>2. rest = "" /\ pos \in pos..Len(file) /\ file[pos] = Tok
    BY <1>1, NotAtEnd DEF Control, Pointed
  <1>3. /\ pos' \in (pos + 1)..(Len(file) + 1) /\ pos' \in pos..(Len(file) + 1)
        /\ \A i \in pos..(pos' - 1) : i = pos \/ file[i] = "NL"
    BY <1>1, <1>2, PassesOne
  <1>4. /\ "CSV" \in Fields /\ "CSV" \notin ClauseFields /\ "skipped" \in Fields
        /\ ClauseFields \subseteq Fields
    BY DEF Fields, ClauseFields, OptionClauses, SQLClauses
  <1>5. cmd = NoCommand /\ clause = ""
    BY <1>1, NoClause DEF Control, Filled, OptionClauses, SQLClauses
  <1>6. \A f \in Fields : cmd[f] = <<>>
    BY <1>5 DEF NoCommand
  <1> DEFINE text == IF Tok = "CSV" THEN <<Value(pos)>> ELSE <<>>
             new == IF Tok = "CSV" THEN {pos} ELSE {}
  <1>7. Tok = "CSV" => Value(pos) = <<pos, pos>>
    BY <1>2 DEF Value
  <1>8. pos \in Int
    BY Positions
  <1>9. text \in Seq(Int \X Int)
    <2>1. <<>> \in Seq(Int \X Int) /\ <<<<pos, pos>>>> \in Seq(Int \X Int)
      BY <1>8, ShortSeqs
    <2>2. QED
      BY <1>7, <2>1
  <1>10. /\ cmd' \in [Fields -> Seq(Int \X Int)] /\ cmd'["CSV"] = text
         /\ \A g \in Fields \ {"CSV"} : cmd'[g] = cmd[g] /\ Texts(cmd', g) = Texts(cmd, g)
    <2> HIDE DEF text
    <2>1. cmd' = [cmd EXCEPT !["CSV"] = text]
      BY <1>1 DEF text
    <2>2. QED
      BY <1>4, <1>9, <2>1, SetField
  <1>11. Texts(cmd', "CSV") = new
    <2>1. CASE Tok = "CSV"
      <3>1. cmd'["CSV"] = <<<<pos, pos>>>>
        BY <1>7, <1>10, <2>1
      <3>2. \A c : c["CSV"] = <<<<pos, pos>>>> => Texts(c, "CSV") = {pos}
        BY <1>8, OnePosition
      <3>3. Texts(cmd', "CSV") = {pos}
        BY <3>1, <3>2, Zenon
      <3>4. QED
        BY <2>1, <3>3
    <2>2. CASE Tok # "CSV"
      <3>1. cmd'["CSV"] = <<>>
        BY <1>10, <2>2
      <3>2. QED
        BY <2>2, <3>1, NoTexts, Zenon
    <2>3. QED
      BY <2>1, <2>2
  <1>12. new \subseteq pos..pos' /\ pos' \notin new /\ pos' # pos
    <2>1. new \subseteq {pos}
      OBVIOUS
    <2> HIDE DEF new
    <2>2. pos' \in (pos + 1)..(Len(file) + 1)
      BY <1>3
    <2>3. QED
      BY <2>1, <2>2, Positions
  <1>13. OneCommand(file, pos, pos' - 1) /\ \A i \in pos..(pos' - 1) : file[i] \in Words
    BY <1>1, <1>2, <1>3 DEF OneCommand, Words, Separators
  <1> HIDE DEF new, text
  <1>14. Reads(new)
    <2>1. \A f \in Fields : Texts(cmd', f) \subseteq Texts(cmd, f) \cup new
      BY <1>10, <1>11
    <2>2. \A i \in new : InText(cmd', i)
      BY <1>4, <1>11 DEF InText
    <2>3. QED
      BY <1>1, <1>3, <1>12, <1>13, <2>1, <2>2 DEF Reads
  <1>15. Outside
    <2>1. \A f \in Fields : Texts(cmd, f) = {}
      BY <1>6, NoTexts
    <2>2. QED
      BY <1>1, <1>4, <1>5, <1>10, <2>1 DEF Outside
  <1>16. Types'
    BY <1>1, <1>2, <1>3, <1>5, <1>10, TypesStep
  <1>17. Filled'
    BY <1>1, <1>4, <1>6, <1>10 DEF Filled, Fields, OptionClauses, SQLClauses
  <1>18. Pointed'
    BY <1>1, <1>2, <1>5 DEF Pointed, Clauses, OptionClauses, SQLClauses, ValueClauses
  <1>19. Ending'
    <2>1. Goes
      BY <1>1, <1>3, <1>13 DEF Goes
    <2>2. QED
      BY <2>1, EndingStep DEF Control
  <1>20. QED
    BY <1>14, <1>15, <1>16, <1>17, <1>18, <1>19 DEF Moves, Control

\* ReadLoad
LEMMA ReadLoadMoves ==
    ASSUME Types, Control, ReadLoad, ~Fail
    PROVE  Types' /\ Control' /\ Moves
  <1> DEFINE s == Skip(pos)
  <1>1. /\ state = "init" /\ s <= Len(file)
        /\ \/ file[s] = "LOAD" /\ state' = "type" /\ pos' = Skip(s + 1)
           \/ file[s] = ";" /\ pos' = s + 1 /\ state' = state
        /\ file' = file /\ rest' = rest /\ clause' = clause /\ cmd' = cmd /\ cmds' = cmds /\ result' = result
    BY DEF ReadLoad
  <1>2. /\ s \in pos..(Len(file) + 1)
        /\ s > Len(file) \/ file[s] # "NL"
        /\ \A i \in pos..(s - 1) : file[i] = "NL"
    <2>1. Len(file) \in Nat /\ pos \in 1..(Len(file) + 1)
      BY Positions
    <2>2. QED
      BY <2>1, SkipStops
  <1> HIDE DEF s
  <1>3. s \in pos..Len(file) /\ s \in Int
    BY <1>1, <1>2, InFile, Zenon
  <1>4. /\ Skip(s + 1) \in (s + 1)..(Len(file) + 1)
        /\ \A i \in (s + 1)..(Skip(s + 1) - 1) : file[i] = "NL"
    BY <1>3, PassesOne
  <1>5. s + 1 \in (s + 1)..(Len(file) + 1)
    BY <1>3, Positions
  <1>6. pos' \in (s + 1)..(Len(file) + 1) /\ \A i \in (s + 1)..(pos' - 1) : file[i] = "NL"
    <2>1. (s + 1)..((s + 1) - 1) = {}
      BY <1>3
    <2>2. CASE pos' = Skip(s + 1)
      BY <1>4, <2>2
    <2>3. CASE pos' = s + 1
      BY <1>5, <2>1, <2>3
    <2>4. QED
      BY <1>1, <2>2, <2>3
  <1>7. /\ pos' \in pos..(Len(file) + 1) /\ pos' # pos
        /\ \A i \in pos..(pos' - 1) : i = s \/ i \in pos..(s - 1) \/ i \in (s + 1)..(pos' - 1)
    <2>1. s \in pos..Len(file) /\ pos' \in (s + 1)..(Len(file) + 1) /\ Len(file) \in Nat /\ pos \in Nat
      BY <1>3, <1>6, Positions
    <2>2. QED
      BY <2>1, Beyond
  <1>8. \A i \in pos..(pos' - 1) : file[i] \in Words
    BY <1>1, <1>2, <1>6, <1>7 DEF Words, Separators
  <1>9. cmd = NoCommand /\ clause = "" /\ rest = ""
    BY <1>1, NoClause DEF Control, Filled, Pointed, OptionClauses, SQLClauses
  <1>10. \A f \in Fields : Texts(cmd', f) = {}
    <2>1. \A f \in Fields : cmd'[f] = <<>>
      BY <1>1, <1>9 DEF NoCommand
    <2>2. QED
      BY <2>1, NoTexts
  <1>11. Reads({})
    BY <1>1, <1>7, <1>8, <1>10 DEF Reads
  <1>12. Outside
    BY <1>1, <1>9 DEF Outside
  <1>13. Types'
    <2>1. cmd' \in [Fields -> Seq(Int \X Int)]
      BY <1>1 DEF Types
    <2>2. QED
      BY <1>1, <1>7, <1>9, <2>1, TypesStep
  <1>14. Filled'
    BY <1>1, <1>9 DEF Filled, NoCommand, Fields
  <1>15. Pointed'
    BY <1>1, <1>9 DEF Pointed, Clauses, OptionClauses, SQLClauses, ValueClauses
  <1>16. file[s] = "LOAD" => Ahead(file, pos')
    <2>1. PICK e \in 1..Len(file) : file[e] = ";" /\ \A j \in (e + 1)..Len(file) : file[j] = "NL"
      BY <1>1 DEF Control, Ending, Closed
    <2>2. ASSUME file[s] = "LOAD"
          PROVE  e \notin pos..s /\ s \notin (e + 1)..Len(file) /\ e \notin (s + 1)..(pos' - 1)
      <3>1. \A i \in pos..s : i \in pos..(s - 1) \/ i = s
        BY <1>3
      <3>2. QED
        BY <1>2, <1>6, <2>1, <2>2, <3>1
    <2>3. ASSUME e \notin pos..s, s \notin (e + 1)..Len(file), e \notin (s + 1)..(pos' - 1)
          PROVE  e \in pos'..Len(file)
      <3>1. s \in pos..Len(file) /\ pos' \in (s + 1)..(Len(file) + 1) /\ Len(file) \in Nat /\ pos \in Nat
        BY <1>3, <1>6, Positions
      <3>2. QED
        BY <2>3, <3>1, StillAhead
    <2>4. QED
      BY <2>1, <2>2, <2>3 DEF Ahead
  <1>17. Ending'
    BY <1>1, <1>16 DEF Control, Ending
  <1>18. QED
    BY <1>11, <1>12, <1>13, <1>14, <1>15, <1>17 DEF Moves, Control

\* The cursor at the keyword of a clause.
LEMMA AtKeyword ==
    ASSUME Types, Control, state \in Clauses, clause = ""
    PROVE  rest = "" /\ file[pos] = state /\ pos <= Len(file) /\ pos \in pos..Len(file) /\ state # ";"
  <1>1. rest = "" /\ ~Ends(file, pos) /\ file[pos] = state
    BY DEF Control, Pointed
  <1>2. ~(pos > Len(file))
    BY <1>1, Zenon DEF Ends
  <1>3. pos <= Len(file) /\ pos \in pos..Len(file)
    BY <1>2, CursorInFile, Zenon
  <1>4. QED
    BY <1>1, <1>3 DEF Clauses, OptionClauses, SQLClauses, ValueClauses

\* ReadTarget
LEMMA ReadTargetMoves ==
    ASSUME Types, Control, ReadTarget, ~Fail
    PROVE  Types' /\ Control' /\ Moves
  <1> DEFINE v == Skip(pos + 1)
  <1>1. /\ state \in ValueClauses /\ ~EndsAt(v)
        /\ cmd' = [f \in Fields |-> IF f = "schema" \/ (f = "table" /\ state = "TARGETTABLE")
                                    THEN <<Value(v)>> ELSE cmd[f]]
        /\ pos' = AfterValue(v) /\ rest' = Rest(v)
        /\ state' = AdvanceState(AfterValue(v), Rest(v))
        /\ file' = file /\ clause' = clause /\ cmds' = cmds /\ result' = result
    BY DEF ReadTarget
  <1>2. clause = "" /\ state \in Clauses /\ state \notin OptionClauses \cup SQLClauses
    BY <1>1, NoClause DEF ValueClauses, Clauses, OptionClauses, SQLClauses
  <1>3. rest = "" /\ file[pos] = state /\ pos <= Len(file) /\ state # ";"
    BY <1>2, AtKeyword
  <1>4. /\ v \in (pos + 1)..Len(file)
        /\ Value(v) \in Int \X Int /\ Span(v) \subseteq {v}
        /\ AfterValue(v) \in v..(Len(file) + 1)
        /\ AfterValue(v) \in Span(v) => Rest(v) # ""
        /\ Rest(v) \in {"", "rest"}
        /\ Rest(v) # "" => ~Ends(file, AfterValue(v))
        /\ \A i \in (pos + 1)..(AfterValue(v) - 1) : i \in Span(v) \/ file[i] \in {"NL", ","}
        /\ \A i \in (pos + 1)..(AfterValue(v) - 1) : file[i] # ";"
        /\ \A i \in (pos + 1)..(v - 1) : file[i] = "NL"
    BY <1>1, <1>3, ReadsValue
  <1> HIDE DEF v
  <1>5. /\ AfterValue(v) \in pos..(Len(file) + 1) /\ Span(v) \subseteq pos..AfterValue(v)
        /\ AfterValue(v) # pos /\ pos < AfterValue(v) /\ pos \notin Span(v)
    <2>1. v \in (pos + 1)..Len(file) /\ AfterValue(v) \in v..(Len(file) + 1) /\ Span(v) \subseteq {v}
      BY <1>4
    <2>2. QED
      BY <2>1, Positions
  <1>6. \A i \in pos..(AfterValue(v) - 1) : i = pos \/ i \in (pos + 1)..(AfterValue(v) - 1)
    <2>1. AfterValue(v) \in pos..(Len(file) + 1)
      BY <1>5
    <2>2. QED
      BY <2>1, Positions
  <1>7. {"schema", "table", "skipped"} \subseteq Fields
    BY DEF Fields
  <1>8. <<Value(v)>> \in Seq(Int \X Int) /\ cmd \in [Fields -> Seq(Int \X Int)]
    <2>1. <<Value(v)>> \in Seq(Int \X Int)
      BY <1>4, ShortSeqs
    <2>2. QED
      BY <2>1 DEF Types
  <1>9. cmd' \in [Fields -> Seq(Int \X Int)]
    BY <1>1, <1>8
  <1>10. /\ cmd'["schema"] = <<Value(v)>>
         /\ state = "TARGETTABLE" => cmd'["table"] = <<Value(v)>>
         /\ state = "TARGETSCHEMA" => cmd'["table"] = cmd["table"]
         /\ \A f \in Fields \ {"schema", "table"} : cmd'[f] = cmd[f]
    BY <1>1, <1>7
  <1>11. Texts(cmd', "schema") = Span(v) /\ (state = "TARGETTABLE" => Texts(cmd', "table") = Span(v))
    <2>1. Value(v) \in Int \X Int
      BY <1>4
    <2>2. cmd'["schema"] = <<Value(v)>> /\ (state = "TARGETTABLE" => cmd'["table"] = <<Value(v)>>)
      BY <1>10
    <2>3. QED
      BY <2>1, <2>2, OneValue, Zenon
  <1>12. OneCommand(file, pos, AfterValue(v) - 1)
    BY <1>3, <1>4, <1>6 DEF OneCommand
  <1>13. \A i \in pos..(AfterValue(v) - 1) : file[i] \in Words \/ i \in Span(v)
    BY <1>2, <1>3, <1>4, <1>6 DEF Words, Separators
  <1>14. Reads(Span(v))
    <2>1. ASSUME NEW f \in Fields
          PROVE  Texts(cmd', f) \subseteq Texts(cmd, f) \cup Span(v)
      <3>1. state \in {"TARGETTABLE", "TARGETSCHEMA"}
        BY <1>1 DEF ValueClauses
      <3>2. CASE f = "schema" \/ (f = "table" /\ state = "TARGETTABLE")
        BY <1>11, <3>2
      <3>3. CASE ~(f = "schema" \/ (f = "table" /\ state = "TARGETTABLE"))
        <4>1. cmd'[f] = cmd[f]
          BY <1>10, <3>1, <3>3
        <4>2. Texts(cmd', f) = Texts(cmd, f)
          BY <4>1 DEF Texts
        <4>3. QED
          BY <4>2
      <3>4. QED
        BY <3>2, <3>3
    <2>2. \A i \in Span(v) : InText(cmd', i)
      BY <1>7, <1>11 DEF InText
    <2>3. pos' \in pos..(Len(file) + 1) /\ Span(v) \subseteq pos..pos' /\ pos' # pos /\ (pos' \in Span(v) => rest' # "")
      BY <1>1, <1>4, <1>5
    <2>4. QED
      BY <1>1, <1>5, <1>12, <1>13, <2>1, <2>2, <2>3 DEF Reads
  <1>15. Begins(Span(v))
    BY <1>1, <1>2, <1>3, <1>5 DEF Begins
  <1>16. Targets(Span(v))
    <2>1. \A p \in Span(v) : \A i \in (pos + 1)..(p - 1) : file[i] \notin Clauses
      BY <1>4 DEF Clauses, OptionClauses, SQLClauses, ValueClauses
    <2>2. QED
      BY <1>1, <1>2, <1>10, <1>11, <1>12, <2>1 DEF Targets
  <1>17. /\ state' \in {"done"} \cup Clauses
         /\ state' # "done" => rest' = "" /\ ~Ends(file', pos') /\ file'[pos'] = state'
    BY <1>1, AdvanceStateStops
  <1>18. Types'
    <2>1. /\ pos' \in pos..(Len(file) + 1) /\ rest' \in {"", "rest"}
          /\ clause' \in OptionClauses \cup SQLClauses \cup {""}
      BY <1>1, <1>2, <1>4, <1>5
    <2>2. QED
      BY <1>1, <1>9, <1>17, <2>1, TypesStep
  <1>19. Filled'
    <2>1. cmd["skipped"] = <<>>
      BY <1>2 DEF Control, Filled, Clauses, OptionClauses, SQLClauses, ValueClauses
    <2>2. QED
      BY <1>7, <1>10, <1>17, <2>1 DEF Filled, Clauses, OptionClauses, SQLClauses, ValueClauses
  <1>20. Pointed'
    BY <1>1, <1>2, <1>4, <1>17 DEF Pointed, Clauses, OptionClauses, SQLClauses, ValueClauses
  <1>21. Ending'
    <2>1. Goes
      BY <1>1, <1>2, <1>5, <1>12, <1>17 DEF Goes, Clauses, OptionClauses, SQLClauses, ValueClauses
    <2>2. QED
      BY <2>1, EndingStep DEF Control
  <1>22. QED
    BY <1>14, <1>15, <1>16, <1>18, <1>19, <1>20, <1>21 DEF Moves, Control

\* OpenClause
LEMMA OpenClauseMoves ==
    ASSUME Types, Control, OpenClause
    PROVE  Types' /\ Control' /\ Moves
  <1> DEFINE v == Skip(pos + 1)
  <1>1. /\ state \in OptionClauses \cup SQLClauses /\ clause = ""
        /\ \/ /\ ~EndsAt(v) /\ file[v] = "ALLVIEWS"
              /\ cmd' = [cmd EXCEPT ![state] = <<<<v, v>>>>]
              /\ pos' = Skip(v + 1) /\ state' = AdvanceState(Skip(v + 1), "")
              /\ clause' = clause
           \/ /\ cmd' = [cmd EXCEPT ![state] = <<>>]
              /\ pos' = v /\ clause' = state /\ state' = state
        /\ file' = file /\ rest' = rest /\ cmds' = cmds /\ result' = result
    BY DEF OpenClause
  <1>2. state \in Clauses
    BY <1>1 DEF Clauses
  <1>3. rest = "" /\ file[pos] = state /\ pos \in pos..Len(file) /\ state # ";"
    BY <1>1, <1>2, AtKeyword
  <1>4. /\ v \in (pos + 1)..(Len(file) + 1) /\ v \in pos..(Len(file) + 1)
        /\ \A i \in (pos + 1)..(v - 1) : file[i] = "NL"
        /\ \A i \in pos..(v - 1) : i = pos \/ file[i] = "NL"
    BY <1>3, PassesOne
  <1> HIDE DEF v
  <1>5. state \in Fields /\ "skipped" \in Fields /\ state # "skipped" /\ cmd["skipped"] = <<>>
    BY <1>1 DEF Fields, Control, Filled, OptionClauses, SQLClauses
  <1>6. state \notin {"split", "init", "type", "from", "into", "done", "end"}
    BY <1>1 DEF OptionClauses, SQLClauses
  <1>7. v \in Int /\ pos < v
    BY <1>4, Positions
  <1>8. PICK here \in Fields : here = state
    BY <1>5
  \* A list of options or statements
  <1>9. ASSUME cmd' = [cmd EXCEPT ![state] = <<>>], pos' = v, clause' = state, state' = state
        PROVE  Types' /\ Control' /\ Moves
    <2>1. <<>> \in Seq(Int \X Int) /\ cmd' = [cmd EXCEPT ![here] = <<>>]
      BY <1>8, <1>9
    <2>2. /\ cmd' \in [Fields -> Seq(Int \X Int)] /\ cmd'[here] = <<>>
          /\ \A g \in Fields \ {here} : cmd'[g] = cmd[g] /\ Texts(cmd', g) = Texts(cmd, g)
      BY <2>1, SetField
    <2>3. Texts(cmd', here) = {}
      BY <2>2 DEF Texts
    <2>4. pos' \in pos..(Len(file) + 1) /\ pos' # pos /\ pos < pos'
      BY <1>4, <1>7, <1>9, Positions
    <2>5. OneCommand(file, pos, pos' - 1) /\ \A i \in pos..(pos' - 1) : file[i] \in Words
      BY <1>2, <1>3, <1>4, <1>9 DEF OneCommand, Words, Separators
    <2>6. Reads({})
      <3>1. \A f \in Fields : Texts(cmd', f) \subseteq Texts(cmd, f)
        BY <2>2, <2>3
      <3>2. QED
        BY <1>1, <2>4, <2>5, <3>1 DEF Reads
    <2>7. Begins({})
      BY <1>1, <1>2, <1>3, <2>4 DEF Begins
    <2>8. Opens({})
      <3>1. \A i \in (pos + 1)..(pos' - 1) : file[i] \notin Clauses
        BY <1>4, <1>9 DEF Clauses, OptionClauses, SQLClauses, ValueClauses
      <3>2. QED
        BY <1>1, <1>8, <1>9, <2>2, <2>3, <2>5, <3>1 DEF Opens
    <2>9. Types'
      <3>1. state' \in {"split", "init", "type", "from", "into", "done", "end"} \cup Clauses
        BY <1>2, <1>9
      <3>2. clause' \in OptionClauses \cup SQLClauses \cup {""} /\ rest' \in {"", "rest"}
        BY <1>1, <1>3, <1>9
      <3>3. QED
        BY <1>1, <2>2, <2>4, <3>1, <3>2, TypesStep
    <2>10. Filled'
      BY <1>5, <1>6, <1>8, <1>9, <2>2 DEF Filled
    <2>11. Pointed'
      BY <1>1, <1>3, <1>9 DEF Pointed, OptionClauses, SQLClauses
    <2>12. Ending'
      <3>1. Goes
        BY <1>1, <1>6, <1>9, <2>4, <2>5 DEF Goes
      <3>2. QED
        BY <3>1, EndingStep DEF Control
    <2>13. QED
      BY <2>6, <2>7, <2>8, <2>9, <2>10, <2>11, <2>12 DEF Moves, Control
  \* MATERIALIZE ALL VIEWS
  <1>10. ASSUME ~EndsAt(v), file[v] = "ALLVIEWS", cmd' = [cmd EXCEPT ![state] = <<<<v, v>>>>],
                pos' = Skip(v + 1), state' = AdvanceState(Skip(v + 1), ""), clause' = clause
         PROVE  Types' /\ Control' /\ Moves
    <2>1. <<<<v, v>>>> \in Seq(Int \X Int) /\ cmd' = [cmd EXCEPT ![here] = <<<<v, v>>>>]
      <3>1. <<<<v, v>>>> \in Seq(Int \X Int)
        BY <1>7, ShortSeqs
      <3>2. QED
        BY <1>8, <1>10, <3>1
    <2>2. /\ cmd' \in [Fields -> Seq(Int \X Int)] /\ cmd'[here] = <<<<v, v>>>>
          /\ \A g \in Fields \ {here} : cmd'[g] = cmd[g] /\ Texts(cmd', g) = Texts(cmd, g)
      BY <2>1, SetField
    <2>3. Texts(cmd', here) = {v}
      <3>1. \A c : c[here] = <<<<v, v>>>> => Texts(c, here) = {v}
        BY <1>7, OnePosition
      <3>2. QED
        BY <2>2, <3>1, Zenon
    <2>4. v \in pos..Len(file)
      <3>1. ~(v > Len(file))
        BY <1>10, Zenon DEF EndsAt
      <3>2. v <= Len(file)
        BY <1>4, <3>1, NotPast, Positions, Zenon
      <3>3. QED
        BY <1>4, <3>2, InFile, Zenon
    <2>5. /\ pos' \in (v + 1)..(Len(file) + 1) /\ pos' \in pos..(Len(file) + 1)
          /\ \A i \in v..(pos' - 1) : i = v \/ file[i] = "NL"
      BY <1>10, <2>4, PassesOne
    <2>6. {v} \subseteq pos..pos' /\ pos' \notin {v} /\ pos' # pos /\ pos < pos' /\ pos \notin {v}
      <3>1. pos' \in (v + 1)..(Len(file) + 1)
        BY <2>5
      <3>2. QED
        BY <1>7, <2>4, <3>1, Positions
    <2>7. /\ \A i \in pos..(pos' - 1) : i \in pos..(v - 1) \/ i \in v..(pos' - 1)
          /\ \A i \in (pos + 1)..(pos' - 1) : i \in (pos + 1)..(v - 1) \/ i \in v..(pos' - 1)
      <3>1. pos' - 1 \in Int /\ pos \in Int /\ pos + 1 \in Int
        <4>1. pos' \in pos..(Len(file) + 1)
          BY <2>5
        <4>2. QED
          BY <4>1, Positions
      <3>2. QED
        BY <1>7, <3>1, Through
    <2>8. OneCommand(file, pos, pos' - 1) /\ \A i \in pos..(pos' - 1) : file[i] \in Words \/ i \in {v}
      BY <1>2, <1>3, <1>4, <1>10, <2>5, <2>7 DEF OneCommand, Words, Separators
    <2>9. Reads({v})
      <3>1. \A f \in Fields : Texts(cmd', f) \subseteq Texts(cmd, f) \cup {v}
        BY <2>2, <2>3
      <3>2. \A i \in {v} : InText(cmd', i)
        BY <2>3 DEF InText
      <3>3. QED
        BY <1>1, <2>5, <2>6, <2>8, <3>1, <3>2 DEF Reads
    <2>10. Begins({v})
      BY <1>1, <1>2, <1>3, <2>6 DEF Begins
    <2>11. Opens({v})
      <3>1. \A i \in (pos + 1)..(pos' - 1) : file[i] \notin Clauses
        BY <1>4, <1>10, <2>5, <2>7 DEF Clauses, OptionClauses, SQLClauses, ValueClauses
      <3>2. file[v] \notin Clauses /\ \A i \in (pos + 1)..(v - 1) : file[i] \notin Clauses
        BY <1>4, <1>10 DEF Clauses, OptionClauses, SQLClauses, ValueClauses
      <3>3. QED
        BY <1>1, <1>8, <1>10, <2>2, <2>3, <2>8, <3>1, <3>2 DEF Opens
    <2>12. /\ state' \in {"done"} \cup Clauses
           /\ state' # "done" => rest' = "" /\ ~Ends(file', pos') /\ file'[pos'] = state'
      BY <1>1, <1>3, <1>10, AdvanceStateStops
    <2>13. Types'
      <3>1. clause' \in OptionClauses \cup SQLClauses \cup {""} /\ rest' \in {"", "rest"}
        BY <1>1, <1>3, <1>10
      <3>2. QED
        BY <1>1, <2>2, <2>5, <2>12, <3>1, TypesStep
    <2>14. Filled'
      BY <1>5, <1>8, <2>2, <2>12 DEF Filled, Clauses, OptionClauses, SQLClauses, ValueClauses
    <2>15. Pointed'
      BY <1>1, <1>3, <1>10, <2>12 DEF Pointed, Clauses, OptionClauses, SQLClauses, ValueClauses
    <2>16. Ending'
      <3>1. Goes
        BY <1>1, <1>6, <2>5, <2>8, <2>12 DEF Goes, Clauses, OptionClauses, SQLClauses, ValueClauses
      <3>2. QED
        BY <3>1, EndingStep DEF Control
    <2>17. QED
      BY <2>9, <2>10, <2>11, <2>13, <2>14, <2>15, <2>16 DEF Moves, Control
  <1>11. QED
    BY <1>1, <1>9, <1>10

\* A step of the reader of a list of options or statements.
Reading(new) ==
    /\ clause # "" /\ clause' = clause /\ state' = state
    /\ file' = file /\ cmds' = cmds /\ result' = result
    /\ cmd' \in [Fields -> Seq(Int \X Int)]
    /\ \A f \in Fields \ {clause} : cmd'[f] = cmd[f]
    /\ Texts(cmd', clause) = Texts(cmd, clause) \cup new
    /\ pos' \in pos..(Len(file) + 1) /\ new \subseteq pos..pos'
    /\ rest' \in {"", "rest"}
    /\ pos' \in new => rest' # ""
    /\ pos' = pos /\ rest # "" => rest' # ""
    /\ rest' # "" => ~Ends(file, pos')
    /\ \A i \in pos..(pos' - 1) :
          /\ file[i] \in Words \/ i \in new
          /\ file[i] # ";"
          /\ file[i] \in Clauses => file[i] = "SET" /\ i \in new
    /\ \A p \in new : IsSetText(file, p)

LEMMA ReadingMoves ==
    ASSUME Types, Control, NEW new, Reading(new)
    PROVE  Types' /\ Control' /\ Moves
  <1>1. clause \in OptionClauses \cup SQLClauses /\ state = clause
    BY DEF Reading, Types, Control, Pointed
  <1>2. /\ clause \in Fields /\ clause # "skipped" /\ "skipped" \in Fields /\ state' = clause
        /\ clause \notin {"split", "init", "type", "from", "into", "done", "end"}
    BY <1>1 DEF Reading, Fields, OptionClauses, SQLClauses
  <1>3. OneCommand(file, pos, pos' - 1)
    BY DEF Reading, OneCommand
  <1>4. Reads(new)
    <2>1. ASSUME NEW f \in Fields
          PROVE  Texts(cmd', f) \subseteq Texts(cmd, f) \cup new
      <3>1. CASE f = clause
        BY <3>1 DEF Reading
      <3>2. CASE f # clause
        <4>1. cmd'[f] = cmd[f]
          BY <3>2 DEF Reading
        <4>2. Texts(cmd', f) = Texts(cmd, f)
          BY <4>1 DEF Texts
        <4>3. QED
          BY <4>2
      <3>3. QED
        BY <3>1, <3>2
    <2>2. \A i \in new : InText(cmd', i)
      BY <1>2 DEF InText, Reading
    <2>3. QED
      BY <1>3, <2>1, <2>2 DEF Reads, Reading
  <1>5. Within(new)
    BY <1>1, <1>3 DEF Within, Reading
  <1>6. Types'
    <2>1. /\ clause' \in OptionClauses \cup SQLClauses \cup {""}
          /\ state' \in {"split", "init", "type", "from", "into", "done", "end"} \cup Clauses
      BY <1>1 DEF Reading, Clauses
    <2>2. QED
      BY <2>1, TypesStep DEF Reading
  <1>7. Filled'
    <2>1. cmd["skipped"] = <<>> /\ cmd'["skipped"] = cmd["skipped"]
      BY <1>1, <1>2 DEF Control, Filled, Reading
    <2>2. QED
      BY <1>2, <2>1 DEF Filled
  <1>8. Pointed'
    BY <1>1, <1>2 DEF Pointed, Reading
  <1>9. Ending'
    <2>1. Goes
      BY <1>1, <1>2, <1>3 DEF Goes, Reading
    <2>2. QED
      BY <2>1, EndingStep DEF Control
  <1>10. QED
    BY <1>4, <1>5, <1>6, <1>7, <1>8, <1>9 DEF Moves, Control

\* SkipComma
LEMMA SkipCommaMoves ==
    ASSUME Types, Control, SkipComma
    PROVE  Types' /\ Control' /\ Moves
  <1>1. /\ clause # "" /\ ~AtEnd /\ Tok = "," /\ pos' = Skip(pos + 1)
        /\ file' = file /\ rest' = rest /\ state' = state /\ clause' = clause /\ cmd' = cmd
        /\ cmds' = cmds /\ result' = result
    BY DEF SkipComma
  <1>2. rest = "" /\ pos \in pos..Len(file) /\ file[pos] = ","
    BY <1>1, NotAtEnd
  <1>3. /\ pos' \in pos..(Len(file) + 1)
        /\ \A i \in pos..(pos' - 1) : i = pos \/ file[i] = "NL"
    BY <1>1, <1>2, PassesOne
  <1>4. \A i \in pos..(pos' - 1) : file[i] \in Words /\ file[i] # ";" /\ file[i] \notin Clauses
    BY <1>2, <1>3 DEF Words, Separators, Clauses, OptionClauses, SQLClauses, ValueClauses
  <1>5. cmd' \in [Fields -> Seq(Int \X Int)] /\ Texts(cmd', clause) = Texts(cmd, clause) \cup {}
    BY <1>1 DEF Types
  <1>6. Reading({})
    BY <1>1, <1>2, <1>3, <1>4, <1>5 DEF Reading
  <1>7. QED
    BY <1>6, ReadingMoves

\* An option or a statement more.
LEMMA TextAppended ==
    ASSUME Types, Control, clause # "", NEW a \in Int, NEW b \in Int,
           cmd' = [cmd EXCEPT ![clause] = Append(@, <<a, b>>)]
    PROVE  /\ cmd' \in [Fields -> Seq(Int \X Int)]
           /\ \A f \in Fields \ {clause} : cmd'[f] = cmd[f]
           /\ Texts(cmd', clause) = Texts(cmd, clause) \cup (a..b)
  <1>1. clause \in Fields
    BY DEF Types, Fields
  <1>2. PICK f \in Fields : f = clause
    BY <1>1
  <1>3. cmd \in [Fields -> Seq(Int \X Int)] /\ cmd[f] \in Seq(Int \X Int)
    BY DEF Types
  <1>4. cmd' = [cmd EXCEPT ![f] = Append(cmd[f], <<a, b>>)]
    BY <1>2
  <1>5. Append(cmd[f], <<a, b>>) \in Seq(Int \X Int)
    <2>1. <<a, b>> \in Int \X Int
      OBVIOUS
    <2>2. QED
      BY <1>3, <2>1, LongerSeq, Zenon
  <1>6. /\ cmd' \in [Fields -> Seq(Int \X Int)] /\ cmd'[f] = Append(cmd[f], <<a, b>>)
        /\ \A g \in Fields \ {f} : cmd'[g] = cmd[g]
    BY <1>4, <1>5, SetField
  <1>7. Texts(cmd', f) = Texts(cmd, f) \cup (a..b)
    <2>1. ASSUME NEW c, NEW d, c[f] \in Seq(Int \X Int), d[f] = Append(c[f], <<a, b>>)
          PROVE  \A p : p \in Texts(d, f) <=> p \in Texts(c, f) \/ p \in a..b
      BY <2>1, OneTextMore
    <2>2. \A p : p \in Texts(cmd', f) <=> p \in Texts(cmd, f) \/ p \in a..b
      BY <1>3, <1>6, <2>1, Zenon
    <2>3. QED
      BY <2>2
  <1>8. QED
    BY <1>2, <1>6, <1>7

\* ReadStatement
LEMMA ReadStatementMoves ==
    ASSUME Types, Control, ReadStatement
    PROVE  Types' /\ Control' /\ Moves
  <1>1. /\ clause \in SQLClauses /\ ~AtEnd /\ Tok \in Quoted
        /\ cmd' = [cmd EXCEPT ![clause] = Append(@, <<pos, pos>>)]
        /\ pos' = Skip(pos + 1)
        /\ file' = file /\ rest' = rest /\ state' = state /\ clause' = clause
        /\ cmds' = cmds /\ result' = result
    BY DEF ReadStatement
  <1>2. clause # ""
    BY <1>1 DEF SQLClauses
  <1>3. rest = "" /\ pos \in pos..Len(file) /\ file[pos] \in Quoted
    BY <1>1, NotAtEnd DEF Quoted
  <1>4. /\ pos' \in (pos + 1)..(Len(file) + 1) /\ pos' \in pos..(Len(file) + 1)
        /\ \A i \in pos..(pos' - 1) : i = pos \/ file[i] = "NL"
    BY <1>1, <1>3, PassesOne
  <1>5. pos \in Int
    BY Positions
  <1>6. /\ cmd' \in [Fields -> Seq(Int \X Int)]
        /\ \A f \in Fields \ {clause} : cmd'[f] = cmd[f]
        /\ Texts(cmd', clause) = Texts(cmd, clause) \cup (pos..pos)
    BY <1>1, <1>2, <1>5, TextAppended
  <1>7. pos..pos = {pos}
    BY <1>5
  <1>8. {pos} \subseteq pos..pos' /\ pos' \notin {pos} /\ pos' # pos
    <2>1. pos' \in (pos + 1)..(Len(file) + 1)
      BY <1>4
    <2>2. QED
      BY <2>1, Positions
  <1>9. \A i \in pos..(pos' - 1) :
           /\ file[i] \in Words \/ i \in {pos}
           /\ file[i] # ";" /\ file[i] \notin Clauses
    BY <1>3, <1>4 DEF Words, Separators, Quoted, Clauses, OptionClauses, SQLClauses, ValueClauses
  <1>10. IsSetText(file, pos)
    BY <1>3 DEF IsSetText, Quoted, Clauses, OptionClauses, SQLClauses, ValueClauses
  <1>11. Reading({pos})
    BY <1>1, <1>2, <1>3, <1>4, <1>6, <1>7, <1>8, <1>9, <1>10 DEF Reading
  <1>12. QED
    BY <1>11, ReadingMoves

\* CloseClause
LEMMA CloseClauseMoves ==
    ASSUME Types, Control, CloseClause
    PROVE  Types' /\ Control' /\ Moves
  <1>1. /\ clause # "" /\ clause' = "" /\ state' = AdvanceState(pos, rest)
        /\ file' = file /\ pos' = pos /\ rest' = rest /\ cmd' = cmd /\ cmds' = cmds /\ result' = result
    BY DEF CloseClause
  <1>2. clause \in OptionClauses \cup SQLClauses /\ state = clause
    BY <1>1 DEF Types, Control, Pointed
  <1>3. /\ state \notin {"split", "init", "type", "from", "into", "done", "end"}
        /\ cmd["skipped"] = <<>>
    BY <1>2 DEF Control, Filled, OptionClauses, SQLClauses
  <1>4. pos \in pos..(Len(file) + 1) /\ pos..(pos - 1) = {}
    BY CursorRange
  <1>5. OneCommand(file, pos, pos' - 1)
    BY <1>1, <1>4 DEF OneCommand
  <1>6. Reads({})
    BY <1>1, <1>4, <1>5 DEF Reads
  <1>7. Outside
    BY <1>1 DEF Outside
  <1>8. /\ state' \in {"done"} \cup Clauses
        /\ state' # "done" => rest' = "" /\ ~Ends(file', pos') /\ file'[pos'] = state'
    BY <1>1, AdvanceStateStops
  <1>9. Types'
    BY <1>1, <1>8 DEF Types
  <1>10. Filled'
    BY <1>1, <1>3, <1>8 DEF Filled, Clauses, OptionClauses, SQLClauses, ValueClauses
  <1>11. Pointed'
    BY <1>1, <1>8 DEF Control, Pointed, Clauses, OptionClauses, SQLClauses, ValueClauses
  <1>12. Ending'
    <2>1. Goes
      BY <1>1, <1>3, <1>4, <1>5, <1>8 DEF Goes, Clauses, OptionClauses, SQLClauses, ValueClauses
    <2>2. QED
      BY <2>1, EndingStep DEF Control
  <1>13. QED
    BY <1>6, <1>7, <1>9, <1>10, <1>11, <1>12 DEF Moves, Control

\* SkipRest
LEMMA SkipRestMoves ==
    ASSUME Types, Control, SkipRest
    PROVE  Types' /\ Control' /\ Moves
  <1> DEFINE new == pos..(CommandEnd - 1)
  <1>1. /\ state = "done" /\ ~AtEnd
        /\ cmd' = [cmd EXCEPT !["skipped"] = <<<<pos, CommandEnd - 1>>>>]
        /\ pos' = CommandEnd /\ rest' = ""
        /\ file' = file /\ state' = state /\ clause' = clause /\ cmds' = cmds /\ result' = result
    BY DEF SkipRest
  <1>2. clause = ""
    BY <1>1, NoClause DEF OptionClauses, SQLClauses
  <1>3. /\ CommandEnd \in pos..Len(file)
        /\ file[CommandEnd] = ";"
        /\ \A i \in pos..(CommandEnd - 1) : file[i] # ";"
    <2>1. PICK last \in pos..Len(file) : file[last] = ";"
      BY <1>1 DEF Control, Ending, Ahead
    <2>2. Len(file) \in Nat /\ pos \in Nat
      BY Positions
    <2>3. QED
      BY <2>1, <2>2, CommandStops
  <1>4. CommandEnd \in pos..(Len(file) + 1) /\ CommandEnd - 1 \in Int /\ pos \in Int
    <2>1. CommandEnd \in pos..Len(file)
      BY <1>3
    <2>2. QED
      BY <2>1, Positions
  <1>5. new \subseteq pos..CommandEnd /\ CommandEnd \notin new
    <2>1. CommandEnd \in pos..Len(file)
      BY <1>3
    <2>2. QED
      BY <2>1, Positions
  <1>6. /\ "skipped" \in Fields /\ "skipped" \notin ClauseFields
        /\ ClauseFields \subseteq Fields
    BY DEF Fields, ClauseFields, OptionClauses, SQLClauses
  <1>7. <<<<pos, CommandEnd - 1>>>> \in Seq(Int \X Int)
    BY <1>4, ShortSeqs
  <1>8. /\ cmd' \in [Fields -> Seq(Int \X Int)] /\ cmd'["skipped"] = <<<<pos, CommandEnd - 1>>>>
        /\ \A g \in Fields \ {"skipped"} : cmd'[g] = cmd[g] /\ Texts(cmd', g) = Texts(cmd, g)
    BY <1>1, <1>6, <1>7, SetField
  <1>9. Texts(cmd', "skipped") = new
    BY <1>8, OneText
  <1>10. ~(AtEnd) /\ (rest # "" => ~Ends(file, pos))
    BY <1>1 DEF Control, Pointed
  <1>11. ~Ends(file, pos)
    BY <1>10, EndsAtIsEnds DEF AtEnd
  <1>12. cmd["skipped"] = <<>>
    BY <1>1, <1>11 DEF Control, Filled
  <1>13. CommandEnd # pos
    BY <1>3, <1>11 DEF Ends
  <1> HIDE DEF new
  <1>14. OneCommand(file, pos, pos' - 1) /\ \A i \in pos..(pos' - 1) : i \in new
    BY <1>1, <1>3 DEF OneCommand, new
  <1>15. Reads(new)
    <2>1. \A f \in Fields : Texts(cmd', f) \subseteq Texts(cmd, f) \cup new
      BY <1>8, <1>9
    <2>2. \A i \in new : InText(cmd', i)
      BY <1>6, <1>9 DEF InText
    <2>3. QED
      BY <1>1, <1>4, <1>5, <1>13, <1>14, <2>1, <2>2 DEF Reads
  <1>16. Outside
    <2>1. Texts(cmd, "skipped") = {}
      BY <1>12, NoTexts
    <2>2. QED
      BY <1>1, <1>2, <1>6, <1>8, <2>1 DEF Outside
  <1>17. Types'
    BY <1>1, <1>2, <1>4, <1>8, TypesStep
  <1>18. Filled'
    <2>1. Ends(file', pos')
      BY <1>1, <1>3 DEF Ends
    <2>2. QED
      BY <1>1, <2>1 DEF Filled
  <1>19. Pointed'
    BY <1>1, <1>2 DEF Pointed, Clauses, OptionClauses, SQLClauses, ValueClauses
  <1>20. Ending'
    <2>1. Goes
      BY <1>1, <1>4, <1>14 DEF Goes
    <2>2. QED
      BY <2>1, EndingStep DEF Control
  <1>21. QED
    BY <1>15, <1>16, <1>17, <1>18, <1>19, <1>20 DEF Moves, Control

\* ReadOption
LEMMA ReadOptionMoves ==
    ASSUME Types, Control, ReadOption
    PROVE  Types' /\ Control' /\ Moves
  <1> DEFINE e == OptionEnd(pos)
             comma == ~EndsAt(e) /\ file[e] = ","
             s == IF comma THEN e + 1 ELSE e
  <1>1. /\ clause \in OptionClauses /\ ~AtEnd /\ Tok \notin Clauses \cup {","}
        /\ file' = file /\ state' = state /\ clause' = clause /\ cmds' = cmds /\ result' = result
        /\ \/ rest # "" /\ cmd' = cmd /\ pos' = pos /\ rest' = rest
           \/ /\ rest = "" /\ ~EndsAt(e) /\ file[e] = "sql;"
              /\ cmd' = [cmd EXCEPT ![clause] = Append(@, <<pos, e>>)] /\ pos' = e /\ rest' = "rest"
           \/ /\ rest = ""
              /\ cmd' = [cmd EXCEPT ![clause] = Append(@, <<pos, e - 1>>)]
              /\ pos' = Skip(s) /\ rest' = rest
    BY DEF ReadOption
  <1>2. clause # ""
    BY <1>1 DEF OptionClauses
  <1>3. Len(file) \in Nat /\ pos \in Nat /\ pos \in 1..(Len(file) + 1) /\ pos \in Int
    BY Positions
  <1>4. /\ e \in pos..(Len(file) + 1)
        /\ \A i \in pos..(e - 1) : ~OptionEndsAt(pos, i)
    BY <1>3, OptionStops
  <1> HIDE DEF e, comma
  <1>5. e \in Int /\ e - 1 \in Int /\ e \in pos..e /\ e \in pos..(Len(file) + 1)
    <2>1. e \in pos..(Len(file) + 1)
      BY <1>4
    <2>2. QED
      BY <1>3, <2>1
  <1>51. /\ \A i \in pos..e : i = e \/ i \in pos..(e - 1)
         /\ \A i \in pos..(e - 1) : i \in pos..e
         /\ e \in 1..(Len(file) + 1)
    BY <1>3, <1>5
  <1>6. ASSUME rest # "", cmd' = cmd, pos' = pos, rest' = rest
        PROVE  Reading({})
    <2>1. ~Ends(file, pos)
      BY <1>6 DEF Control, Pointed
    <2>2. pos \in pos..(Len(file) + 1) /\ pos..(pos - 1) = {}
      BY CursorRange
    <2>3. cmd' \in [Fields -> Seq(Int \X Int)] /\ rest' \in {"", "rest"}
      BY <1>6 DEF Types
    <2>4. QED
      BY <1>1, <1>2, <1>6, <2>1, <2>2, <2>3 DEF Reading
  \* The texts of an option
  <1>7. ASSUME NEW i \in pos..(e - 1)
        PROVE  /\ file[i] \notin {";", ",", "NL", "sql;"}
               /\ i > pos => file[i] \notin Clauses \ {"SET"}
    BY <1>4 DEF OptionEndsAt, EndsAt
  <1>8. ASSUME rest = ""
        PROVE  file[pos] \notin Clauses
    BY <1>1, <1>8, NotAtEnd
  <1>9. ASSUME NEW i \in pos..(e - 1), file[i] \in Clauses, rest = ""
        PROVE  file[i] = "SET" /\ file[i - 1] \notin {",", "NL"}
    <2>1. i # pos
      BY <1>8, <1>9
    <2>2. i > pos /\ i - 1 \in pos..(e - 1)
      BY <1>3, <1>5, <2>1, Before, Zenon
    <2>3. QED
      BY <1>7, <1>9, <2>2
  \* An option with a dollar quote that has a semicolon
  <1>10. ASSUME rest = "", ~EndsAt(e), file[e] = "sql;", pos' = e, rest' = "rest",
                cmd' = [cmd EXCEPT ![clause] = Append(@, <<pos, e>>)]
         PROVE  Reading(pos..e)
    <2>1. /\ cmd' \in [Fields -> Seq(Int \X Int)]
          /\ \A f \in Fields \ {clause} : cmd'[f] = cmd[f]
          /\ Texts(cmd', clause) = Texts(cmd, clause) \cup (pos..e)
      BY <1>2, <1>3, <1>5, <1>10, TextAppended
    <2>2. \A i \in pos..e : i = e \/ i \in pos..(e - 1)
      BY <1>51
    <2>3. \A i \in pos..(e - 1) : i \in pos..e
      BY <1>51
    <2>4. \A p \in pos..e : IsSetText(file, p)
      BY <1>9, <1>10, <2>2 DEF IsSetText, Clauses, OptionClauses, SQLClauses, ValueClauses
    <2>5. \A i \in pos..(e - 1) : file[i] # ";" /\ (file[i] \in Clauses => file[i] = "SET")
      BY <1>7, <1>9, <1>10
    <2>6. ~Ends(file, e)
      BY <1>10, EndsAtIsEnds
    <2>7. QED
      BY <1>1, <1>2, <1>5, <1>10, <2>1, <2>3, <2>4, <2>5, <2>6 DEF Reading
  \* Any other option
  <1>11. ASSUME rest = "", pos' = Skip(s), rest' = rest,
                cmd' = [cmd EXCEPT ![clause] = Append(@, <<pos, e - 1>>)]
         PROVE  Reading(pos..(e - 1))
    <2>1. /\ cmd' \in [Fields -> Seq(Int \X Int)]
          /\ \A f \in Fields \ {clause} : cmd'[f] = cmd[f]
          /\ Texts(cmd', clause) = Texts(cmd, clause) \cup (pos..(e - 1))
      BY <1>2, <1>3, <1>5, <1>11, TextAppended
    <2>2. comma => e \in 1..Len(file) /\ file[e] = ","
      <3>1. ASSUME comma
            PROVE  ~(e > Len(file)) /\ file[e] = ","
        BY <3>1, Zenon DEF comma, EndsAt
      <3>2. \A n \in Nat : \A p \in 1..(n + 1) : \A i \in p..(n + 1) : ~(i > n) => i \in 1..n
        BY Before
      <3>3. QED
        BY <1>3, <1>4, <3>1, <3>2, Zenon
    <2>3. s \in e..(Len(file) + 1) /\ \A i \in e..(s - 1) : comma /\ i = e
      <3>1. e \in 1..(Len(file) + 1)
        BY <1>51
      <3>2. CASE comma
        <4>1. e + 1 \in e..(Len(file) + 1) /\ \A i \in e..((e + 1) - 1) : i = e
          BY <1>3, <2>2, <3>1, <3>2, HereOrNext, Zenon
        <4>2. QED
          BY <3>2, <4>1
      <3>3. CASE ~comma
        <4>1. e \in e..(Len(file) + 1) /\ e..(e - 1) = {}
          BY <1>3, <3>1, HereOrNext, Zenon
        <4>2. QED
          BY <3>3, <4>1
      <3>4. QED
        BY <3>2, <3>3
    <2> HIDE DEF s
    <2>4. s \in 1..(Len(file) + 1)
      BY <1>3, <1>5, <2>3
    <2>5. /\ Skip(s) \in s..(Len(file) + 1)
          /\ \A i \in s..(Skip(s) - 1) : file[i] = "NL"
      BY <1>3, <2>4, SkipStops
    <2>6. /\ pos' \in pos..(Len(file) + 1) /\ pos..(e - 1) \subseteq pos..pos'
          /\ pos' \notin pos..(e - 1)
          /\ \A i \in pos..(pos' - 1) : i \in pos..(e - 1) \/ i \in e..(s - 1) \/ i \in s..(pos' - 1)
      <3>1. pos' \in s..(Len(file) + 1)
        BY <1>11, <2>5
      <3>2. s \in e..(Len(file) + 1)
        BY <2>3
      <3>3. pos' \in Int /\ s \in Int /\ pos <= e /\ e <= s /\ s <= pos' /\ pos' <= Len(file) + 1
        BY <1>3, <1>5, <3>1, <3>2
      <3>4. pos' \in pos..(Len(file) + 1) /\ pos..(e - 1) \subseteq pos..pos'
        BY <1>3, <1>5, <3>3
      <3>5. pos' \notin pos..(e - 1)
        BY <1>3, <1>5, <3>3
      <3>6. \A i \in pos..(pos' - 1) : i \in pos..(e - 1) \/ i \in e..(s - 1) \/ i \in s..(pos' - 1)
        <4>1. pos \in Int /\ e \in Int /\ s \in Int /\ pos' - 1 \in Int
          BY <1>3, <1>5, <3>3
        <4>2. /\ \A i \in pos..(pos' - 1) : i \in pos..(e - 1) \/ i \in e..(pos' - 1)
              /\ \A i \in e..(pos' - 1) : i \in e..(s - 1) \/ i \in s..(pos' - 1)
          BY <4>1, Through
        <4>3. QED
          BY <4>2
      <3>7. QED
        BY <3>4, <3>5, <3>6
    <2>7. \A i \in pos..(pos' - 1) : i \in pos..(e - 1) \/ file[i] \in {"NL", ","}
      BY <1>11, <2>2, <2>3, <2>5, <2>6
    <2>8. \A i \in pos..(pos' - 1) :
             /\ file[i] \in Words \/ i \in pos..(e - 1)
             /\ file[i] # ";"
             /\ file[i] \in Clauses => file[i] = "SET" /\ i \in pos..(e - 1)
      BY <1>7, <1>9, <1>11, <2>7 DEF Words, Separators, Clauses, OptionClauses, SQLClauses, ValueClauses
    <2>9. \A p \in pos..(e - 1) : IsSetText(file, p)
      BY <1>9, <1>11 DEF IsSetText
    <2>10. QED
      BY <1>1, <1>2, <1>11, <2>1, <2>6, <2>8, <2>9 DEF Reading
  <1>12. \E new : Reading(new)
    BY <1>1, <1>6, <1>10, <1>11
  <1>13. QED
    BY <1>12, ReadingMoves

\* EndCommand: the texts of the command become those of the last one done.
LEMMA HeldAppended ==
    ASSUME Types, cmds' = Append(cmds, cmd), cmd' = NoCommand, NEW p
    PROVE  Held(p)' <=> Held(p)
  <1>0. PICK S : cmds \in Seq(S) /\ cmd \in S
    BY Zenon DEF Types
  <1>1. Len(cmds) \in Nat /\ Len(cmds') = Len(cmds) + 1
    BY <1>0
  <1>2. /\ \A j \in 1..Len(cmds) : cmds'[j] = cmds[j]
        /\ cmds'[Len(cmds) + 1] = cmd
    BY <1>0
  <1>3. 1..(Len(cmds) + 1) = 1..Len(cmds) \cup {Len(cmds) + 1}
    BY <1>1
  <1>4. ~InText(cmd', p)
    <2>1. \A f \in Fields : cmd'[f] = <<>>
      BY DEF NoCommand
    <2>2. \A f \in Fields : Texts(cmd', f) = {}
      BY <2>1, NoTexts
    <2>3. QED
      BY <2>2 DEF InText
  <1>5. (\E j \in 1..Len(cmds') : InText(cmds'[j], p)) <=>
           (\E j \in 1..Len(cmds) : InText(cmds[j], p)) \/ InText(cmd, p)
    BY <1>1, <1>2, <1>3
  <1>6. QED
    BY <1>4, <1>5 DEF Held

LEMMA EndCommandStep ==
    ASSUME IInv, EndCommand, ~Fail
    PROVE  IInv'
  <1>1. /\ state \notin {"split", "init", "end"} /\ clause = "" /\ AtEnd
        /\ cmds' = Append(cmds, cmd) /\ cmd' = NoCommand
        /\ state' = "init" /\ pos' = pos + 1
        /\ file' = file /\ rest' = rest /\ clause' = clause /\ result' = result
    BY DEF EndCommand
  <1>2. Types /\ Control
    BY DEF IInv
  <1>3. result = "" /\ ClauseInv /\ rest = ""
    BY <1>1, <1>2 DEF IInv, Control, Ending, ClauseInv, AtEnd, Types
  <1>4. Len(file) \in Nat /\ pos \in Nat \ {0} /\ pos <= Len(file) + 1
    BY <1>2, Positions
  <1>5. pos \in 1..Len(file) /\ file[pos] = ";"
    <2>1. \E q \in pos..Len(file) : TRUE
      BY <1>1, <1>2 DEF Control, Ending, Ahead
    <2>2. pos \in 1..Len(file) /\ ~(pos > Len(file))
      BY <1>4, <2>1
    <2>3. QED
      BY <1>1, <2>2 DEF AtEnd, EndsAt
  <1>51. pos' = pos + 1
    BY <1>1
  <1>6. /\ \A k \in 1..(pos - 1) : k \in 1..(pos' - 1)
        /\ pos + 1 \in 1..(Len(file) + 1)
        /\ \A p \in 1..(pos' - 1) : p = pos \/ p \in 1..(pos - 1)
        /\ \A p \in 1..(pos - 1) : \A q \in (p + 1)..(pos - 1) : q \in (p + 1)..(pos' - 1)
    <2>1. pos \in 1..Len(file)
      BY <1>5
    <2>2. QED
      BY <1>4, <1>51, <2>1
  <1>7. \A p : Held(p)' <=> Held(p)
    BY <1>1, <1>2, HeldAppended
  <1>8. \A f \in Fields : cmd'[f] = <<>>
    BY <1>1 DEF NoCommand
  <1>9. \A f \in Fields : Texts(cmd', f) = {}
    BY <1>8, NoTexts
  <1>10. /\ ClauseFields \subseteq Fields /\ OptionClauses \cup SQLClauses \subseteq Fields
         /\ {"CSV", "FROM", "columns", "skipped"} \subseteq Fields
    BY DEF ClauseFields, Fields
  <1>11. cmd \in [Fields -> Seq(Int \X Int)] /\ cmds \in Seq([Fields -> Seq(Int \X Int)])
    BY <1>2 DEF Types
  <1>12. Types'
    <2>1. cmds' \in Seq([Fields -> Seq(Int \X Int)])
      BY <1>1, <1>11, LongerSeq, Zenon
    <2>2. cmd' \in [Fields -> Seq(Int \X Int)]
      <3>1. <<>> \in Seq(Int \X Int)
        OBVIOUS
      <3>2. QED
        BY <1>1, <3>1 DEF NoCommand
    <2>3. pos + 1 \in 1..(Len(file) + 1)
      BY <1>6
    <2>4. QED
      BY <1>1, <1>2, <2>1, <2>2, <2>3 DEF Types
  <1>13. Filled'
    BY <1>1, <1>8, <1>10 DEF Filled
  <1>14. Pointed'
    BY <1>1, <1>3 DEF Pointed, Clauses, OptionClauses, SQLClauses, ValueClauses
  <1>15. Ending'
    BY <1>1, <1>2, <1>3 DEF Control, Ending
  <1>16. Places'
    <2>1. ASSUME NEW p, Held(p)
          PROVE  p \in 1..(pos + 1) /\ p # pos + 1
      <3>1. p \in 1..pos
        BY <1>3, <2>1 DEF ClauseInv, Places
      <3>2. QED
        BY <1>4, <3>1
    <2>2. QED
      BY <1>1, <1>7, <2>1 DEF Places
  <1>17. Done'
    <2>1. cmds' = Append(cmds, cmd) /\ \E S : cmds \in Seq(S) /\ cmd \in S
      BY <1>1, <1>11, Zenon
    <2>2. \A j \in 1..Len(cmds') : cmds'[j] = cmd \/ (j \in 1..Len(cmds) /\ cmds'[j] = cmds[j])
      BY <2>1
    <2>3. ASSUME NEW c, NEW f \in ClauseFields, NEW k \in 1..(pos - 1), Heading(c, f, k)
          PROVE  Heading(c, f, k)'
      BY <1>1, <1>6, <1>7, <2>3 DEF Heading
    <2>4. ASSUME NEW j \in 1..Len(cmds'), NEW f \in ClauseFields, NEW c, c = cmds'[j]
          PROVE  Texts(c, f) = {} \/ \E k \in 1..(pos - 1) : Heading(c, f, k)
      <3>1. CASE c = cmd
        BY <1>3, <3>1 DEF ClauseInv, Headed, Current
      <3>2. CASE j \in 1..Len(cmds) /\ c = cmds[j]
        BY <1>3, <3>2 DEF ClauseInv, Headed, Done
      <3>3. QED
        BY <2>2, <2>4, <3>1, <3>2
    <2>5. ASSUME NEW j \in 1..Len(cmds'), NEW f \in ClauseFields
          PROVE  Texts(cmds'[j], f) = {} \/ \E k \in 1..(pos' - 1) : Heading(cmds[j], f, k)'
      <3>1. PICK c : c = cmds'[j]
        OBVIOUS
      <3>2. CASE Texts(c, f) = {}
        BY <3>1, <3>2
      <3>3. CASE Texts(c, f) # {}
        <4>1. PICK k \in 1..(pos - 1) : Heading(c, f, k)
          BY <2>4, <3>1, <3>3
        <4>2. k \in 1..(pos' - 1) /\ Heading(c, f, k)'
          BY <1>6, <2>3, <4>1
        <4>3. QED
          BY <3>1, <4>2 DEF Heading
      <3>4. QED
        BY <3>2, <3>3
    <2>6. \A j \in 1..Len(cmds') : SetOnly(file', cmds'[j])
      BY <1>1, <1>3, <2>2 DEF ClauseInv, Headed, Done
    <2>7. QED
      BY <2>5, <2>6 DEF Done
  <1>18. Headed'
    <2>1. \A f \in ClauseFields : Current(f)'
      BY <1>9, <1>10 DEF Current
    <2>2. SetOnly(file', cmd')
      BY <1>9, <1>10 DEF SetOnly
    <2>3. Open'
      BY <1>1 DEF Open
    <2>4. QED
      BY <1>17, <2>1, <2>2, <2>3 DEF Headed
  <1>19. Accounted'
    <2> SUFFICES ASSUME NEW p \in 1..(pos' - 1)
                 PROVE  file[p] \in Words \/ Held(p)' \/ ReplacedSoFar(p)'
      BY <1>1 DEF Accounted
    <2>1. p = pos \/ p \in 1..(pos - 1)
      BY <1>6
    <2>2. CASE p = pos
      BY <1>5, <2>2 DEF Words, Separators
    <2>3. CASE p \in 1..(pos - 1)
      <3>1. ReplacedSoFar(p) => ReplacedSoFar(p)'
        <4>1. \A q \in (p + 1)..(pos - 1) : q \in (p + 1)..(pos' - 1)
          BY <1>6, <2>3
        <4>2. QED
          BY <1>1, <1>7, <4>1 DEF ReplacedSoFar, SameClause
      <3>2. file[p] \in Words \/ Held(p) \/ ReplacedSoFar(p)
        BY <1>3, <2>3 DEF ClauseInv, Accounted
      <3>3. QED
        BY <1>7, <3>1, <3>2
    <2>4. QED
      BY <2>1, <2>2, <2>3
  <1>20. QED
    BY <1>12, <1>13, <1>14, <1>15, <1>16, <1>18, <1>19 DEF IInv, Control

\* A step that moves nothing.
LEMMA StillMoves ==
    ASSUME Types, file' = file, pos' = pos, rest' = rest, clause' = clause, cmd' = cmd, cmds' = cmds
    PROVE  Moves
  <1>1. pos \in pos..(Len(file) + 1) /\ pos..(pos - 1) = {}
    BY CursorRange
  <1>2. Reads({})
    BY <1>1 DEF Reads, OneCommand
  <1>3. CASE clause = ""
    BY <1>2, <1>3 DEF Moves, Outside
  <1>4. CASE clause # ""
    <2>1. Within({})
      BY <1>1, <1>4 DEF Within, Types, OneCommand
    <2>2. QED
      BY <1>2, <2>1 DEF Moves
  <1>5. QED
    BY <1>3, <1>4

\* EndFile: nothing but line ends is left.
LEMMA EndFileMoves ==
    ASSUME Types, Control, EndFile, ~Fail
    PROVE  Types' /\ Control' /\ Moves
  <1>1. /\ state = "init" /\ Skip(pos) > Len(file) /\ result' = "ok" /\ state' = "end"
        /\ file' = file /\ pos' = pos /\ rest' = rest /\ clause' = clause /\ cmd' = cmd /\ cmds' = cmds
    BY DEF EndFile
  <1>2. Types'
    BY <1>1 DEF Types
  <1>3. \A i \in pos..Len(file) : file[i] = "NL"
    <2>1. Len(file) \in Nat /\ pos \in 1..(Len(file) + 1)
      BY Positions
    <2>2. /\ Skip(pos) \in pos..(Len(file) + 1)
          /\ \A i \in pos..(Skip(pos) - 1) : file[i] = "NL"
      BY <2>1, SkipStops
    <2>3. Skip(pos) - 1 = Len(file)
      <3>1. Skip(pos) \in pos..(Len(file) + 1) /\ Skip(pos) > Len(file)
        BY <1>1, <2>2
      <3>2. QED
        BY <2>1, <3>1
    <2>4. QED
      BY <2>2, <2>3
  <1>4. cmd = NoCommand /\ clause = "" /\ rest = ""
    BY <1>1, NoClause DEF Control, Filled, Pointed, OptionClauses, SQLClauses
  <1>5. Filled'
    BY <1>1 DEF Control, Filled
  <1>6. Pointed'
    BY <1>1, <1>4 DEF Pointed, Clauses, OptionClauses, SQLClauses, ValueClauses
  <1>7. Ending'
    BY <1>1, <1>3, <1>4 DEF Control, Ending
  <1>8. QED
    BY <1>1, <1>2, <1>5, <1>6, <1>7, StillMoves DEF Control

LEMMA NoneYet == 1..Len(<<>>) = {} /\ 1..(1 - 1) = {}
  OBVIOUS

\* A parser that has read nothing.
LEMMA NothingRead ==
    ASSUME pos = 1, cmd = NoCommand, cmds = <<>>, clause = ""
    PROVE  ClauseInv
  <1>1. /\ ClauseFields \subseteq Fields /\ OptionClauses \cup SQLClauses \subseteq Fields
    BY DEF ClauseFields, Fields
  <1>2. \A f \in Fields : cmd[f] = <<>>
    BY DEF NoCommand
  <1>3. \A f \in Fields : Texts(cmd, f) = {}
    BY <1>2, NoTexts
  <1>4. 1..Len(cmds) = {} /\ 1..(pos - 1) = {}
    BY NoneYet, Zenon
  <1>5. \A p : ~Held(p)
    BY <1>3, <1>4 DEF Held, InText
  <1>6. Places
    BY <1>5 DEF Places
  <1>7. Headed
    BY <1>1, <1>3, <1>4 DEF Headed, Done, Current, Open, SetOnly
  <1>8. Accounted
    BY <1>4 DEF Accounted
  <1>9. QED
    BY <1>6, <1>7, <1>8 DEF ClauseInv

\* Split
LEMMA SplitStep ==
    ASSUME Types, Control, Split, ~Fail
    PROVE  Types' /\ Control' /\ ClauseInv'
  <1>1. /\ state = "split" /\ SplitOK(WithoutComments) /\ file' = WithoutComments /\ state' = "init"
        /\ pos' = pos /\ rest' = rest /\ clause' = clause /\ cmd' = cmd /\ cmds' = cmds /\ result' = result
    BY DEF Split
  <1>2. /\ pos' = 1 /\ cmd' = NoCommand /\ cmds' = <<>> /\ clause' = "" /\ rest' = "" /\ result' = ""
    BY <1>1, NoClause DEF Control, Filled, Pointed, Ending, OptionClauses, SQLClauses
  <1>3. file' \in Seq(Tokens)
    BY <1>1, WithoutCommentsTokens DEF Types
  <1>4. Types'
    <2>1. 1 \in 1..(Len(file') + 1)
      BY <1>3
    <2>2. cmd' \in [Fields -> Seq(Int \X Int)] /\ cmds' \in Seq([Fields -> Seq(Int \X Int)])
      BY <1>1 DEF Types
    <2>3. QED
      BY <1>1, <1>2, <1>3, <2>1, <2>2 DEF Types
  <1>5. Filled'
    BY <1>1, <1>2 DEF Filled, NoCommand, Fields
  <1>6. Pointed'
    BY <1>1, <1>2 DEF Pointed, Clauses, OptionClauses, SQLClauses, ValueClauses
  <1>7. Ending'
    BY <1>1, <1>2 DEF Ending, SplitOK, Closed
  <1>8. ClauseInv'
    <2>1. /\ ClauseFields \subseteq Fields /\ OptionClauses \cup SQLClauses \subseteq Fields
      BY DEF ClauseFields, Fields
    <2>2. \A f \in Fields : cmd'[f] = <<>>
      BY <1>2 DEF NoCommand
    <2>3. \A f \in Fields : Texts(cmd', f) = {}
      BY <2>2, NoTexts
    <2>4. 1..Len(cmds') = {} /\ 1..(pos' - 1) = {}
      BY <1>2, NoneYet, Zenon
    <2>5. \A p : ~Held(p)'
      BY <2>3, <2>4 DEF Held, InText
    <2>6. Places'
      BY <2>5 DEF Places
    <2>7. Headed'
      BY <1>2, <2>1, <2>3, <2>4 DEF Headed, Done, Current, Open, SetOnly
    <2>8. Accounted'
      BY <2>4 DEF Accounted
    <2>9. QED
      BY <2>6, <2>7, <2>8 DEF ClauseInv
  <1>9. QED
    BY <1>4, <1>5, <1>6, <1>7, <1>8 DEF Control

----------------------------------------------------------------------------
(* The theorems *)

LEMMA InitInv == Init => IInv
  <1> SUFFICES ASSUME Init PROVE IInv
    OBVIOUS
  <1>1. /\ file \in Files /\ pos = 1 /\ rest = "" /\ state = "split" /\ clause = ""
        /\ cmd = NoCommand /\ cmds = <<>> /\ result = ""
    BY DEF Init
  <1>2. Types
    <2>1. file \in Seq(Tokens)
      BY <1>1, FilesAssumption
    <2>2. 1 \in 1..(Len(file) + 1)
      BY <2>1
    <2>3. cmd \in [Fields -> Seq(Int \X Int)] /\ cmds \in Seq([Fields -> Seq(Int \X Int)])
      <3>1. <<>> \in Seq(Int \X Int) /\ <<>> \in Seq([Fields -> Seq(Int \X Int)])
        OBVIOUS
      <3>2. QED
        BY <1>1, <3>1 DEF NoCommand
    <2>4. QED
      BY <1>1, <2>1, <2>2, <2>3 DEF Types
  <1>3. Filled
    BY <1>1 DEF Filled, NoCommand, Fields
  <1>4. Pointed
    BY <1>1 DEF Pointed, Clauses, OptionClauses, SQLClauses, ValueClauses
  <1>5. Ending
    BY <1>1 DEF Ending
  <1>6. ClauseInv
    BY <1>1, NothingRead
  <1>7. QED
    BY <1>2, <1>3, <1>4, <1>5, <1>6 DEF IInv, Control, ClauseInv

LEMMA NextInv == IInv /\ [Next]_vars => IInv'
  <1> SUFFICES ASSUME IInv, [Next]_vars PROVE IInv'
    OBVIOUS
  <1>1. Types /\ Control /\ (result # "error" => ClauseInv)
    BY DEF IInv, ClauseInv
  <1>2. ASSUME Types', Control', Moves, result # "error"
        PROVE  IInv'
    BY <1>1, <1>2, MovesStep DEF IInv, ClauseInv
  <1>3. state # "end" => result = ""
    BY <1>1 DEF Control, Ending
  <1>4. ASSUME Fail, state \notin OptionClauses \cup SQLClauses \/ clause = ""
        PROVE  IInv'
    BY <1>1, <1>4, NoClause, FailStep
  <1>5. CASE Split
    <2>1. state = "split" /\ state \notin OptionClauses \cup SQLClauses
      BY <1>5 DEF Split, OptionClauses, SQLClauses
    <2>2. QED
      BY <1>1, <1>4, <1>5, <2>1, SplitStep DEF IInv, ClauseInv
  <1>6. CASE ReadLoad
    <2>1. state = "init" /\ state \notin OptionClauses \cup SQLClauses
      BY <1>6 DEF ReadLoad, OptionClauses, SQLClauses
    <2>2. QED
      BY <1>1, <1>2, <1>3, <1>4, <1>6, <2>1, ReadLoadMoves
  <1>7. CASE ReadType
    <2>1. state = "type" /\ state \notin OptionClauses \cup SQLClauses
      BY <1>7 DEF ReadType, OptionClauses, SQLClauses
    <2>2. QED
      BY <1>1, <1>2, <1>3, <1>4, <1>7, <2>1, ReadTypeMoves
  <1>8. CASE ReadFrom
    <2>1. state = "from" /\ state \notin OptionClauses \cup SQLClauses
      BY <1>8 DEF ReadFrom, OptionClauses, SQLClauses
    <2>2. QED
      BY <1>1, <1>2, <1>3, <1>4, <1>8, <2>1, ReadFromMoves
  <1>9. CASE ReadInto
    <2>1. state = "into" /\ state \notin OptionClauses \cup SQLClauses
      BY <1>9 DEF ReadInto, OptionClauses, SQLClauses
    <2>2. QED
      BY <1>1, <1>2, <1>3, <1>4, <1>9, <2>1, ReadIntoMoves
  <1>10. CASE ReadTarget
    <2>1. state # "end" /\ state \notin OptionClauses \cup SQLClauses
      BY <1>10 DEF ReadTarget, ValueClauses, OptionClauses, SQLClauses
    <2>2. QED
      BY <1>1, <1>2, <1>3, <1>4, <1>10, <2>1, ReadTargetMoves
  <1>11. CASE OpenClause
    <2>1. state # "end"
      BY <1>11 DEF OpenClause, OptionClauses, SQLClauses
    <2>2. QED
      BY <1>1, <1>2, <1>3, <1>11, <2>1, OpenClauseMoves
  <1>12. clause # "" => state # "end"
    BY <1>1 DEF Control, Pointed, Types, OptionClauses, SQLClauses
  <1>13. CASE ReadOption
    <2>1. clause # ""
      BY <1>13 DEF ReadOption, OptionClauses
    <2>2. QED
      BY <1>1, <1>2, <1>3, <1>12, <1>13, <2>1, ReadOptionMoves
  <1>14. CASE ReadStatement
    <2>1. clause # ""
      BY <1>14 DEF ReadStatement, SQLClauses
    <2>2. QED
      BY <1>1, <1>2, <1>3, <1>12, <1>14, <2>1, ReadStatementMoves
  <1>15. CASE SkipComma
    <2>1. clause # ""
      BY <1>15 DEF SkipComma
    <2>2. QED
      BY <1>1, <1>2, <1>3, <1>12, <1>15, <2>1, SkipCommaMoves
  <1>16. CASE CloseClause
    <2>1. clause # ""
      BY <1>16 DEF CloseClause
    <2>2. QED
      BY <1>1, <1>2, <1>3, <1>12, <1>16, <2>1, CloseClauseMoves
  <1>17. CASE SkipRest
    <2>1. state # "end"
      BY <1>17 DEF SkipRest
    <2>2. QED
      BY <1>1, <1>2, <1>3, <1>17, <2>1, SkipRestMoves
  <1>18. CASE EndCommand
    <2>1. clause = ""
      BY <1>18 DEF EndCommand
    <2>2. QED
      BY <1>4, <1>18, <2>1, EndCommandStep
  <1>19. CASE EndFile
    <2>1. state = "init" /\ state \notin OptionClauses \cup SQLClauses
      BY <1>19 DEF EndFile, OptionClauses, SQLClauses
    <2>2. QED
      BY <1>1, <1>2, <1>3, <1>4, <1>19, <2>1, EndFileMoves
  <1>20. CASE UNCHANGED vars
    <2>1. /\ file' = file /\ pos' = pos /\ rest' = rest /\ state' = state /\ clause' = clause
          /\ cmd' = cmd /\ cmds' = cmds /\ result' = result
      BY <1>20 DEF vars
    <2>2. Types'
      BY <1>1, <2>1 DEF Types
    <2>3. Control'
      BY <1>1, <2>1 DEF Control, Filled, Pointed, Ending
    <2>4. Moves
      BY <1>1, <2>1, StillMoves
    <2>5. CASE result = "error"
      BY <2>1, <2>2, <2>3, <2>5 DEF IInv
    <2>6. CASE result # "error"
      BY <1>2, <2>2, <2>3, <2>4, <2>6
    <2>7. QED
      BY <2>5, <2>6
  <1>21. QED
    BY <1>5, <1>6, <1>7, <1>8, <1>9, <1>10, <1>11, <1>13, <1>14, <1>15, <1>16, <1>17, <1>18, <1>19, <1>20
       DEF Next

\* Whatever the tokens of the file, every text the parser holds follows the
\* keyword of its clause, no keyword between them but a SET that was read as a
\* text, and of what the cursor has passed every text is held, or a later clause
\* of its kind has taken its place (parseCommand and its readers).
THEOREM ParserInvariance == Spec => []IInv
  <1>1. Init => IInv
    BY InitInv
  <1>2. IInv /\ [Next]_vars => IInv'
    BY NextInv
  <1>3. QED
    BY <1>1, <1>2, PTL DEF Spec

\* Every option and every statement of an accepted file stands in the clause it
\* was read for, and no clause is read as part of another (readOptionsUntil,
\* readSQLStatements, advanceState).
THEOREM TextsStayInTheirClause == Spec => []TextsInTheirClause
  <1>1. IInv => TextsInTheirClause
    <2> SUFFICES ASSUME IInv, result = "ok",
                        NEW i \in 1..Len(cmds), NEW f \in OptionClauses \cup SQLClauses, NEW p \in Texts(cmds[i], f)
                 PROVE  file[Keyword(p)] = f /\ IsSetText(file, p)
      BY DEF TextsInTheirClause, IsSetText
    <2>1. Types /\ Places /\ Done
      BY DEF IInv, Headed
    <2>2. f \in ClauseFields /\ f \in Fields /\ KeywordsOf(f) = {f} /\ f \in Clauses
      BY DEF ClauseFields, Fields, KeywordsOf, Clauses, OptionClauses, SQLClauses
    <2>3. PICK k \in 1..(pos - 1) : Heading(cmds[i], f, k)
      BY <2>1, <2>2 DEF Done
    <2>4. file[k] = f /\ ~Held(k) /\ k < p /\ \A j \in (k + 1)..(p - 1) : SetInText(file, cmds[i], f, j)
      BY <2>2, <2>3 DEF Heading, Follow
    <2>5. \A j : Stored(j) <=> \E n \in 1..Len(cmds) : InText(cmds[n], j)
      BY DEF Stored, InText
    <2>6. ~Stored(k) /\ \A j \in (k + 1)..(p - 1) : file[j] \in Clauses => Stored(j)
      BY <2>2, <2>4, <2>5 DEF Held, SetInText, Stored
    <2>7. p \in 1..pos /\ pos \in Nat
      <3>1. Held(p)
        BY <2>2 DEF Held, InText
      <3>2. QED
        BY <2>1, <3>1, Positions DEF Places
    <2>8. k \in 1..(p - 1) /\ \A j \in 1..(p - 1) : j = k \/ k \in (j + 1)..(p - 1) \/ j \in (k + 1)..(p - 1)
      <3>1. k < p
        BY <2>4
      <3>2. QED
        BY <2>7, <3>1
    <2> DEFINE IsKeyword(j) ==
                 /\ file[j] \in Clauses /\ ~Stored(j)
                 /\ \A m \in (j + 1)..(p - 1) : file[m] \in Clauses => Stored(m)
    <2>9. IsKeyword(k)
      BY <2>2, <2>4, <2>6
    <2>10. \A j \in 1..(p - 1) : IsKeyword(j) => j = k
      BY <2>2, <2>4, <2>6, <2>8
    <2>11. Keyword(p) = CHOOSE j \in 1..(p - 1) : IsKeyword(j)
      BY Zenon DEF Keyword
    <2> HIDE DEF IsKeyword
    <2>12. Keyword(p) = k
      BY <2>8, <2>9, <2>10, <2>11
    <2>13. IsSetText(file, p)
      BY <2>1 DEF Done, SetOnly
    <2>14. QED
      BY <2>4, <2>12, <2>13
  <1>2. QED
    BY <1>1, ParserInvariance, PTL

\* Of an accepted file no text disappears: it is in a command, in the part that
\* is skipped as a whole, or a later clause of the same kind has replaced it (the
\* assignments of parseCommand).
THEOREM NothingIsLost == Spec => []NothingLost
  <1>1. IInv => NothingLost
    <2> SUFFICES ASSUME IInv, result = "ok", NEW p \in 1..Len(file)
                 PROVE  file[p] \in Words \/ Stored(p) \/ Replaced(p)
      BY DEF NothingLost, Words
    <2>1. Types /\ Accounted /\ cmd = NoCommand /\ \A i \in pos..Len(file) : file[i] = "NL"
      BY DEF IInv, Control, Ending
    <2>2. \A j : Held(j) <=> Stored(j)
      <3>1. \A f \in Fields : cmd[f] = <<>>
        BY <2>1 DEF NoCommand
      <3>2. \A f \in Fields : Texts(cmd, f) = {}
        BY <3>1, NoTexts
      <3>3. QED
        BY <3>2 DEF Held, InText, Stored
    <2>3. p \in 1..(pos - 1) \/ p \in pos..Len(file)
      BY <2>1, Positions
    <2>4. CASE p \in pos..Len(file)
      BY <2>1, <2>4 DEF Words, Separators
    <2>5. CASE p \in 1..(pos - 1)
      <3>1. ASSUME ReplacedSoFar(p)
            PROVE  Replaced(p)
        <4>1. PICK k \in 1..(p - 1), q \in (p + 1)..(pos - 1) :
                 /\ {file[k], file[q]} \subseteq Clauses /\ SameClause(k, q) /\ ~Held(k) /\ ~Held(q)
                 /\ \A i \in (k + 1)..p : file[i] \in Clauses => file[i] = "SET"
                 /\ OneCommand(file, k, q)
          BY <3>1 DEF ReplacedSoFar
        <4>2. q \in (p + 1)..Len(file)
          BY <2>1, Positions
        <4>3. QED
          BY <2>2, <4>1, <4>2 DEF Replaced, OneCommand
      <3>2. file[p] \in Words \/ Held(p) \/ ReplacedSoFar(p)
        BY <2>1, <2>5 DEF Accounted
      <3>3. QED
        BY <2>2, <3>1, <3>2
    <2>6. QED
      BY <2>3, <2>4, <2>5
  <1>2. QED
    BY <1>1, ParserInvariance, PTL

----------------------------------------------------------------------------
(* Options, for option lists of any length. The invariant adds that the     *)
(* options applied so far are a prefix of WITH followed by --with, and how  *)
(* long it is in each phase.                                                *)

All == with \o cliWith

Progress ==
    /\ Len(given) <= Len(All) /\ \A i \in DOMAIN given : given[i] = All[i]
    /\ pc = "with" => Len(given) <= Len(with)
    /\ pc = "cli" => Len(given) >= Len(with)
    /\ pc = "flags" \/ Ready => Len(given) = Len(All)
    /\ pc # "done" => err = "nil"

OptionsInv == OptionsTypeOK /\ LastOptionWins /\ Progress

\* The lists of the initial states are sequences of options.
LEMMA ListsAreSequences ==
    ASSUME NEW l \in Lists
    PROVE  l \in Seq(Option)
  <1>1. PICK n \in 0..MaxOptions : l \in [1..n -> Offered]
    BY DEF Lists
  <1>2. n \in Nat
    BY <1>1, OfferedAssumption
  <1>3. l \in [1..n -> Option]
    BY <1>1, OfferedAssumption
  <1>4. QED
    BY <1>2, <1>3

\* What main.go appends for the two flags are options.
LEMMA FlagOptionsType == FlagOptions \in Seq(Option)
  <1>1. [keyword |-> "ForeignKeys", value |-> 0] \in Option
    BY DEF Option, Keywords, Settings, Toggles, Scopes
  <1>2. [keyword |-> "IncludeDrop", value |-> 1] \in Option
    BY DEF Option, Keywords, Settings, Toggles, Scopes
  <1> DEFINE f == IF Fkeys = 0 THEN <<[keyword |-> "ForeignKeys", value |-> 0]>> ELSE <<>>
             d == IF Drop = 1 THEN <<[keyword |-> "IncludeDrop", value |-> 1]>> ELSE <<>>
  <1>3. f \in Seq(Option) /\ d \in Seq(Option)
    BY <1>1, <1>2
  <1>4. f \o d \in Seq(Option)
    <2> HIDE DEF f, d
    <2>1. QED
      BY <1>3
  <1>5. QED
    BY <1>4 DEF FlagOptions

\* An accepted option changes the settings it is about, and no other.
LEMMA ApplyDecides ==
    ASSUME NEW c \in [Settings -> Int], NEW o \in Option, Accepted(o),
           c["SchemaOnly"] = 0 \/ c["DataOnly"] = 0
    PROVE  /\ Apply(c, o) \in [Settings -> Int]
           /\ Apply(c, o)["SchemaOnly"] = 0 \/ Apply(c, o)["DataOnly"] = 0
           /\ \A s \in Settings :
                 /\ ~Touches(o, s) => Apply(c, o)[s] = c[s]
                 /\ Touches(o, s) => Apply(c, o)[s] = ValueFor(o, s)
  <1>1. SettingOf(o) \in Settings
    BY DEF SettingOf, Option, Keywords, Accepted, Settings, Toggles
  <1>2. CASE o.keyword \in Scopes
    <2>1. SettingOf(o) = o.keyword
      BY <1>2 DEF SettingOf, Scopes
    <2>2. Apply(c, o) = [s \in Settings |-> IF s = o.keyword THEN 1 ELSE IF s \in Scopes THEN 0 ELSE c[s]]
      BY <1>2 DEF Apply
    <2>3. "SchemaOnly" \in Settings /\ "DataOnly" \in Settings
      BY DEF Settings, Scopes
    <2>4. o.value = 1
      BY <1>2 DEF Option
    <2>5. QED
      BY <1>2, <2>1, <2>2, <2>3, <2>4 DEF Touches, ValueFor, Scopes
  <1>3. CASE o.keyword \notin Scopes
    <2>1. Apply(c, o) = [c EXCEPT ![SettingOf(o)] = o.value]
      BY <1>3 DEF Apply
    <2>2. o.value \in Int
      BY DEF Option
    <2>3. SettingOf(o) \notin Scopes
      BY <1>3 DEF SettingOf, Scopes
    <2>4. QED
      BY <1>1, <1>3, <2>1, <2>2, <2>3 DEF Touches, ValueFor, Scopes
  <1>4. QED
    BY <1>2, <1>3

\* Applying the next option of a list keeps the last one about a setting in
\* charge of it.
LEMMA ApplyNextKeepsDecision ==
    ASSUME OptionsTypeOK, err = "nil", NEW list \in Seq(Option), NEW n \in Nat, n < Len(list),
           \A s \in Settings : Decides(given, cfg, s),
           ApplyNext(list, n), UNCHANGED inputVars
    PROVE  /\ OptionsTypeOK'
           /\ \A s \in Settings : Decides(given', cfg', s)
           /\ \/ /\ err' = "nil" /\ pc' = pc
                 /\ given' = Append(given, list[n + 1])
              \/ err' = "option" /\ pc' = "done" /\ given' = given
  <1> DEFINE o == list[n + 1]
  <1>1. o \in Option
    OBVIOUS
  <1>2. CASE Accepted(o)
    <2>1. /\ cfg' = Apply(cfg, o) /\ given' = Append(given, o)
          /\ UNCHANGED <<pc, err>>
      BY <1>2 DEF ApplyNext
    <2> HIDE DEF o
    <2>2. given \in Seq(Option) /\ cfg \in [Settings -> Int]
      BY DEF OptionsTypeOK
    <2>3. /\ cfg' \in [Settings -> Int]
          /\ cfg'["SchemaOnly"] = 0 \/ cfg'["DataOnly"] = 0
          /\ \A s \in Settings :
                /\ ~Touches(o, s) => cfg'[s] = cfg[s]
                /\ Touches(o, s) => cfg'[s] = ValueFor(o, s)
      BY <1>1, <1>2, <2>1, ApplyDecides DEF OptionsTypeOK
    <2>4. /\ given' \in Seq(Option) /\ Len(given') = Len(given) + 1
          /\ DOMAIN given' = 1..(Len(given) + 1) /\ DOMAIN given = 1..Len(given)
          /\ Len(given) \in Nat
          /\ given'[Len(given) + 1] = o
          /\ \A i \in DOMAIN given : given'[i] = given[i]
      BY <1>1, <2>1, <2>2
    <2>5. OptionsTypeOK'
      BY <2>1, <2>3, <2>4 DEF OptionsTypeOK, inputVars
    <2>6. ASSUME NEW s \in Settings
          PROVE  Decides(given', cfg', s)
      <3>1. CASE Touches(o, s)
        <4>1. cfg'[s] = ValueFor(given'[Len(given) + 1], s) /\ Touches(given'[Len(given) + 1], s)
          BY <2>3, <2>4, <3>1
        <4>2. Len(given) + 1 \in DOMAIN given'
          BY <2>4
        <4>3. \A j \in DOMAIN given' : ~(j > Len(given) + 1)
          BY <2>4
        <4>4. QED
          BY <4>1, <4>2, <4>3 DEF Decides
      <3>2. CASE ~Touches(o, s)
        <4>1. cfg'[s] = cfg[s]
          BY <2>3, <3>2
        <4>2. CASE /\ cfg[s] = DefaultConfig[s]
                   /\ \A i \in DOMAIN given : ~Touches(given[i], s)
          <5>1. ASSUME NEW i \in DOMAIN given'
                PROVE  ~Touches(given'[i], s)
            <6>1. i = Len(given) + 1 \/ i \in DOMAIN given
              BY <2>4
            <6>2. QED
              BY <2>4, <3>2, <4>2, <6>1
          <5>2. QED
            BY <4>1, <4>2, <5>1 DEF Decides
        <4>3. ASSUME NEW k \in DOMAIN given,
                     cfg[s] = ValueFor(given[k], s) /\ Touches(given[k], s),
                     \A j \in DOMAIN given : j > k => ~Touches(given[j], s)
              PROVE  Decides(given', cfg', s)
          <5>1. ASSUME NEW j \in DOMAIN given', j > k
                PROVE  ~Touches(given'[j], s)
            <6>1. j = Len(given) + 1 \/ j \in DOMAIN given
              BY <2>4
            <6>2. QED
              BY <2>4, <3>2, <4>3, <5>1, <6>1
          <5>2. k \in DOMAIN given' /\ given'[k] = given[k]
            BY <2>4
          <5>3. QED
            BY <4>1, <4>3, <5>1, <5>2 DEF Decides
        <4>4. QED
          BY <4>2, <4>3 DEF Decides
      <3>3. QED
        BY <3>1, <3>2
    <2>7. err' = "nil" /\ pc' = pc
      BY <2>1
    <2>8. QED
      BY <2>1, <2>5, <2>6, <2>7 DEF o
  <1>3. CASE ~Accepted(o)
    <2>1. err' = "option" /\ pc' = "done" /\ UNCHANGED <<cfg, given>>
      BY <1>3 DEF ApplyNext
    <2>2. QED
      BY <2>1 DEF OptionsTypeOK, inputVars
  <1>4. QED
    BY <1>2, <1>3

\* What the two lists have to do with their concatenation.
LEMMA AllFacts ==
    ASSUME OptionsTypeOK
    PROVE  /\ All \in Seq(Option) /\ Len(All) = Len(with) + Len(cliWith)
           /\ Len(with) \in Nat /\ Len(cliWith) \in Nat /\ Len(given) \in Nat
           /\ \A n \in Nat : n < Len(with) => All[n + 1] = with[n + 1]
           /\ \A n \in Nat : Len(with) <= n /\ n < Len(All) => All[n + 1] = cliWith[n - Len(with) + 1]
  <1>1. with \in Seq(Option) /\ cliWith \in Seq(Option) /\ given \in Seq(Option)
    BY DEF OptionsTypeOK
  <1>2. /\ All \in Seq(Option) /\ Len(All) = Len(with) + Len(cliWith)
        /\ Len(with) \in Nat /\ Len(cliWith) \in Nat /\ Len(given) \in Nat
    BY <1>1 DEF All
  <1>3. ASSUME NEW n \in Nat, n < Len(with)
        PROVE  All[n + 1] = with[n + 1]
    BY <1>1, <1>3 DEF All
  <1>4. ASSUME NEW n \in Nat, Len(with) <= n, n < Len(All)
        PROVE  All[n + 1] = cliWith[n - Len(with) + 1]
    <2>1. n + 1 \in 1..(Len(with) + Len(cliWith)) /\ n + 1 > Len(with)
      BY <1>2, <1>4
    <2>2. All[n + 1] = cliWith[n + 1 - Len(with)]
      BY <1>1, <1>2, <2>1 DEF All
    <2>3. n + 1 - Len(with) = n - Len(with) + 1
      BY <1>2
    <2>4. QED
      BY <2>2, <2>3
  <1>5. QED
    BY <1>2, <1>3, <1>4

\* An option of either list that is applied is the next one of both lists.
LEMMA NextOption ==
    ASSUME OptionsInv, pc # "done", NEW list \in Seq(Option), NEW n \in Nat, n < Len(list),
           list[n + 1] = All[Len(given) + 1], Len(given) < Len(All),
           pc = "with" => Len(given) < Len(with), pc # "flags",
           ApplyNext(list, n), UNCHANGED inputVars
    PROVE  OptionsInv'
  <1>1. err = "nil" /\ \A s \in Settings : Decides(given, cfg, s)
    BY DEF OptionsInv, Progress, LastOptionWins, Overwritten
  <1>2. /\ OptionsTypeOK'
        /\ \A s \in Settings : Decides(given', cfg', s)
        /\ \/ /\ err' = "nil" /\ pc' = pc
              /\ given' = Append(given, list[n + 1])
           \/ err' = "option" /\ pc' = "done" /\ given' = given
    BY <1>1, ApplyNextKeepsDecision DEF OptionsInv
  <1>3. LastOptionWins'
    BY <1>2 DEF LastOptionWins
  <1>4. All' = All /\ with' = with
    BY DEF inputVars, All
  <1>5. Len(given) \in Nat /\ Len(with) \in Nat /\ Len(All) \in Nat /\ given \in Seq(Option)
    BY AllFacts DEF OptionsInv, OptionsTypeOK
  <1>6. CASE given' = Append(given, list[n + 1]) /\ err' = "nil" /\ pc' = pc
    <2>1. Len(given') = Len(given) + 1
      BY <1>5, <1>6
    <2>2. ASSUME NEW i \in DOMAIN given'
          PROVE  given'[i] = All[i]
      <3>1. list[n + 1] \in Option /\ DOMAIN given = 1..Len(given) /\ DOMAIN given' = 1..(Len(given) + 1)
        BY <1>5, <1>6
      <3>2. CASE i \in DOMAIN given
        <4>1. given'[i] = given[i]
          BY <1>5, <1>6, <3>1, <3>2
        <4>2. QED
          BY <3>2, <4>1 DEF OptionsInv, Progress
      <3>3. CASE i = Len(given) + 1
        BY <1>5, <1>6, <3>1, <3>3
      <3>4. QED
        BY <1>5, <3>1, <3>2, <3>3
    <2>3. /\ Len(given') <= Len(All)
          /\ pc' = "with" => Len(given') <= Len(with)
          /\ pc' = "cli" => Len(given') >= Len(with)
          /\ pc' # "flags" /\ pc' # "done"
      BY <1>5, <1>6, <2>1 DEF OptionsInv, Progress
    <2>4. QED
      BY <1>2, <1>3, <1>4, <1>6, <2>2, <2>3 DEF OptionsInv, Progress, Ready
  <1>7. CASE given' = given /\ err' = "option" /\ pc' = "done"
    <2>1. Progress'
      BY <1>4, <1>7 DEF OptionsInv, Progress, Ready
    <2>2. QED
      BY <1>2, <1>3, <2>1 DEF OptionsInv
  <1>8. QED
    BY <1>2, <1>6, <1>7

\* The defaults satisfy the invariant.
LEMMA InitEstablishes ==
    ASSUME OptionsInit
    PROVE  OptionsInv
  <1>1. with \in Seq(Option)
    <2>1. <<>> \in Seq(Option)
      OBVIOUS
    <2>2. QED
      BY <2>1, ListsAreSequences DEF OptionsInit
  <1>2. cliWith \in Seq(Option)
    <2>1. PICK given0 \in Lists : cliWith = IF via = "file" THEN given0 \o FlagOptions ELSE given0
      BY DEF OptionsInit
    <2>2. given0 \in Seq(Option) /\ FlagOptions \in Seq(Option)
      BY ListsAreSequences, FlagOptionsType
    <2>3. given0 \o FlagOptions \in Seq(Option)
      BY <2>2
    <2>4. QED
      BY <2>1, <2>2, <2>3
  <1>3. DefaultConfig \in [Settings -> Int] /\ DefaultConfig["SchemaOnly"] = 0
    BY DEF DefaultConfig, Settings, Scopes
  <1>4. given \in Seq(Option) /\ Len(given) = 0 /\ DOMAIN given = {}
    BY DEF OptionsInit
  <1>5. OptionsTypeOK
    BY <1>1, <1>2, <1>3, <1>4 DEF OptionsInit, OptionsTypeOK
  <1>6. LastOptionWins
    BY <1>4 DEF OptionsInit, LastOptionWins, Decides
  <1>7. Progress
    BY <1>4, <1>5, AllFacts DEF OptionsInit, Progress, Ready
  <1>8. QED
    BY <1>5, <1>6, <1>7 DEF OptionsInv

\* So does every step from a state that satisfies it.
LEMMA StepPreserves ==
    ASSUME OptionsInv, [OptionsNext]_optionsVars
    PROVE  OptionsInv'
  <1>1. /\ Len(given) \in Nat /\ Len(with) \in Nat /\ Len(cliWith) \in Nat
        /\ Len(All) = Len(with) + Len(cliWith)
        /\ with \in Seq(Option) /\ cliWith \in Seq(Option)
    BY AllFacts DEF OptionsInv, OptionsTypeOK
  <1>2. CASE ApplyWith
    <2>1. CASE Len(given) < Len(with)
      <3>1. with[Len(given) + 1] = All[Len(given) + 1] /\ Len(given) < Len(All)
        BY <1>1, <2>1, AllFacts DEF OptionsInv
      <3>2. QED
        BY <1>1, <1>2, <2>1, <3>1, NextOption DEF ApplyWith
    <2>2. CASE ~(Len(given) < Len(with))
      <3>1. pc = "with" /\ pc' = "cli" /\ UNCHANGED <<cfg, given, err, via, fkeys, drop, with, cliWith>>
        BY <1>2, <2>2 DEF ApplyWith, inputVars
      <3>2. OptionsTypeOK'
        BY <3>1 DEF OptionsInv, OptionsTypeOK
      <3>3. LastOptionWins'
        BY <3>1 DEF OptionsInv, LastOptionWins, Overwritten
      <3>4. Progress'
        BY <1>1, <2>2, <3>1 DEF OptionsInv, Progress, Ready, All
      <3>5. QED
        BY <3>2, <3>3, <3>4 DEF OptionsInv
    <2>3. QED
      BY <2>1, <2>2
  <1>3. CASE ApplyCliWith
    <2>1. CASE Len(given) < Len(with) + Len(cliWith)
      <3>1. pc = "cli" /\ Len(with) <= Len(given)
        BY <1>1, <1>3 DEF ApplyCliWith, OptionsInv, Progress
      <3>2. Len(given) - Len(with) \in Nat /\ Len(given) - Len(with) < Len(cliWith) /\ Len(given) < Len(All)
        BY <1>1, <2>1, <3>1
      <3>3. cliWith[Len(given) - Len(with) + 1] = All[Len(given) + 1]
        BY <1>1, <3>1, <3>2, AllFacts DEF OptionsInv
      <3>4. ApplyNext(cliWith, Len(given) - Len(with)) /\ UNCHANGED inputVars
        BY <1>3, <2>1 DEF ApplyCliWith
      <3>5. QED
        BY <1>1, <3>1, <3>2, <3>3, <3>4, NextOption
    <2>2. CASE ~(Len(given) < Len(with) + Len(cliWith))
      <3>1. pc = "cli" /\ pc' = "flags" /\ UNCHANGED <<cfg, given, err, via, fkeys, drop, with, cliWith>>
        BY <1>3, <2>2 DEF ApplyCliWith, inputVars
      <3>2. OptionsTypeOK'
        BY <3>1 DEF OptionsInv, OptionsTypeOK
      <3>3. LastOptionWins'
        BY <3>1 DEF OptionsInv, LastOptionWins, Overwritten
      <3>4. Len(given) = Len(All)
        BY <1>1, <2>2 DEF OptionsInv, Progress
      <3>5. Progress'
        BY <1>1, <3>1, <3>4 DEF OptionsInv, Progress, Ready, All
      <3>6. QED
        BY <3>2, <3>3, <3>5 DEF OptionsInv
    <2>3. QED
      BY <2>1, <2>2
  <1>4. CASE ApplyFlags
    <2>1. /\ pc = "flags" /\ pc' = "done" /\ UNCHANGED <<given, err, via, fkeys, drop, with, cliWith>>
          /\ cfg' = IF via = "flags" THEN [cfg EXCEPT !["ForeignKeys"] = Fkeys, !["IncludeDrop"] = Drop] ELSE cfg
      BY <1>4 DEF ApplyFlags, inputVars
    <2>2. /\ cfg' \in [Settings -> Int]
          /\ \A s \in Settings : cfg'[s] # cfg[s] => via = "flags" /\ s \in {"ForeignKeys", "IncludeDrop"}
      <3>1. Fkeys \in Int /\ Drop \in Int /\ cfg \in [Settings -> Int]
        BY DEF OptionsInv, OptionsTypeOK, Fkeys, Drop, Absent
      <3>2. QED
        BY <2>1, <3>1
    <2>3. "SchemaOnly" \in Settings /\ "DataOnly" \in Settings
      BY DEF Settings, Scopes
    <2>4. OptionsTypeOK'
      BY <2>1, <2>2, <2>3 DEF OptionsInv, OptionsTypeOK
    <2>5. LastOptionWins'
      BY <2>1, <2>2 DEF OptionsInv, LastOptionWins, Overwritten, Decides
    <2>6. Progress'
      BY <2>1 DEF OptionsInv, Progress, Ready, All
    <2>7. QED
      BY <2>4, <2>5, <2>6 DEF OptionsInv
  <1>5. CASE UNCHANGED optionsVars
    <2>1. OptionsTypeOK'
      BY <1>5 DEF optionsVars, inputVars, OptionsInv, OptionsTypeOK
    <2>2. LastOptionWins'
      BY <1>5 DEF optionsVars, inputVars, OptionsInv, LastOptionWins, Overwritten
    <2>3. Progress'
      BY <1>5 DEF optionsVars, inputVars, OptionsInv, Progress, Ready, All
    <2>4. QED
      BY <2>1, <2>2, <2>3 DEF OptionsInv
  <1>6. QED
    BY <1>2, <1>3, <1>4, <1>5 DEF OptionsNext

\* The invariant holds of every state of every behaviour.
THEOREM OptionsInvariance == OptionsSpec => []OptionsInv
  BY InitEstablishes, StepPreserves, PTL DEF OptionsSpec

\* Types, and "schema only" and "data only" are never both in force: no command
\* is told to skip the data and the schema.
THEOREM OptionsTypeCorrect == OptionsSpec => []OptionsTypeOK
  BY OptionsInvariance, PTL DEF OptionsInv

\* For lists of options of any length the last option about a setting decides
\* it (ApplyWithOption).
THEOREM LastOptionDecides == OptionsSpec => []LastOptionWins
  BY OptionsInvariance, PTL DEF OptionsInv

\* No option is skipped and --with comes after WITH (ExecuteCommand).
THEOREM CliPrevails == OptionsSpec => []CliWithPrevails
  <1>1. OptionsInv => CliWithPrevails
    <2> SUFFICES ASSUME OptionsInv, Ready
                 PROVE  given = All
      BY DEF CliWithPrevails, All
    <2>1. given \in Seq(Option) /\ All \in Seq(Option)
      BY AllFacts DEF OptionsInv, OptionsTypeOK
    <2>2. Len(given) = Len(All) /\ \A i \in 1..Len(given) : given[i] = All[i]
      BY <2>1 DEF OptionsInv, Progress
    <2>3. QED
      BY <2>1, <2>2, SeqEqual
  <1>2. QED
    BY <1>1, OptionsInvariance, PTL

=============================================================================
