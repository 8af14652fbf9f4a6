---------------------------- MODULE QueriesProofs ----------------------------
(***************************************************************************)
(* The two ways of searching agree, and the numbers that file-stats prints *)
(* add up to the files of the index, whatever rows, texts and filters      *)
(* there are.                                                              *)
(***************************************************************************)
EXTENDS Queries, DataProofs

(* The answer of a search through the server is that of its query, as long as
   the command runs. *)
AnswerOfServer ==
  task = "search" /\ asked.server => answer \in SearchServer(asked)

(* The index does not change while a command runs, and a command begins with
   its answer. *)
LEMMA AnswerKept ==
  ASSUME AnswerOfServer, [QueriesNext]_queryVars
  PROVE  AnswerOfServer'
<1>1. CASE UNCHANGED queryVars
  BY <1>1 DEF queryVars, AnswerOfServer, SearchServer, Search, Limited
<1>2. CASE RunSearch
  <2>1. PICK c \in SearchCommand :
          /\ asked' = c /\ index' = index
          /\ task' = "search" => ~Refused(c)
          /\ \/ Refused(c)
             \/ c.server /\ answer' \in SearchServer(c)
             \/ ~c.server
    BY <1>2 DEF RunSearch
  <2>2. SearchServer(asked)' = SearchServer(c)
    BY <2>1 DEF SearchServer, Search, Limited
  <2> QED
    BY <2>1, <2>2 DEF AnswerOfServer
<1>3. CASE SaveRow \/ PurgeHost \/ RunFileStats \/ NextGroup \/ PrintReport \/ Leave
  <2>1. task' # "search"
    BY <1>3 DEF SaveRow, PurgeHost, RunFileStats, NextGroup, PrintReport, Leave
  <2> QED
    BY <2>1 DEF AnswerOfServer
<1> QED
  BY <1>1, <1>2, <1>3 DEF QueriesNext

(* The detour through lists, joined strings and URL parameters changes no
   filter: for the arguments that both look at, a search through the server
   finds what the same search finds in the index itself. *)
THEOREM ServerAgreesAlways == QueriesSpec => []ServerAgrees
<1>1. QueriesInit => AnswerOfServer
  BY DEF QueriesInit, AnswerOfServer
<1>2. AnswerOfServer => ServerAgrees
  <2> SUFFICES ASSUME AnswerOfServer, task = "search", asked.server,
                      asked.tag = Empty, asked.ext = Empty,
                      asked.host # Empty \/ asked.limit = DefaultLimit
               PROVE  answer \in SearchLocal(asked)
    BY DEF ServerAgrees
  <2>1. answer \in Search(asked.text, {}, Given(asked.host), asked.limit)
    BY DEF AnswerOfServer, SearchServer, Given
  <2>2. CASE asked.host # Empty
    <3>1. Given(asked.host) = {asked.host}
      BY <2>2 DEF Given
    <3>2. SearchLocal(asked) = Search(asked.text, {}, {asked.host}, asked.limit)
      BY <2>2 DEF SearchLocal, SearchByHost
    <3> QED
      BY <2>1, <3>1, <3>2
  <2>3. CASE asked.host = Empty
    <3>1. Given(asked.host) = {}
      BY <2>3 DEF Given
    <3>2. SearchLocal(asked) = Search(asked.text, {}, {}, asked.limit)
      BY <2>3 DEF SearchLocal, SearchFiles
    <3> QED
      BY <2>1, <3>1, <3>2
  <2> QED
    BY <2>2, <2>3
<1> QED
  BY <1>1, <1>2, AnswerKept, PTL DEF QueriesSpec

-----------------------------------------------------------------------------
(* What holds between the steps of a command.  The index is finite, since it
   begins empty and grows by one row at a time, and so file-stats has a finite
   list of groups to add up. *)
QueryInv ==
  /\ QueriesTypeOK
  /\ IsFiniteSet(index)
  /\ all \in [stats : Seq(ExtensionStat), count : Nat, size : Nat]
  /\ \A i \in DOMAIN groups : groups[i].extension \in Exts
  /\ task \in {"stats", "report"} => asked \in StatsCommand
  /\ task # "report" => report = NoReport
  /\ task # "search" => answer = {}
  /\ task \notin {"stats", "report"} => all = NoStats /\ groups = <<>>

(* The values of a row. *)
LEMMA RowValues ==
  ASSUME NEW r \in Rows
  PROVE  r.size \in Nat /\ r.ext \in Exts /\ Lower[r.ext] \in {Lower[e] : e \in Exts}
BY QueriesAssumption DEF QueriesAssumption, Exts

(* The weight of every row in the column m of a report. *)
Weight(m) == [r \in Rows |-> IF m = "count" THEN 1 ELSE r.size]

(* The rows that are counted in the group of row r. *)
InGroup(c, r) == {q \in Files(c) : Grouped(c, r, q)}

(* COUNT and SUM of a group are numbers: the weights of its rows. *)
LEMMA GroupValues ==
  ASSUME index \subseteq Rows, IsFiniteSet(index), NEW c, NEW r \in Files(c)
  PROVE  /\ GroupOf(c, r) \in ExtensionStat
         /\ GroupOf(c, r).extension = r.ext /\ r.ext \in Exts
         /\ GroupOf(c, r).count = Total(Weight("count"), InGroup(c, r))
         /\ GroupOf(c, r).size = Total(Weight("size"), InGroup(c, r))
         /\ IsFiniteSet(InGroup(c, r)) /\ InGroup(c, r) \subseteq Rows
<1> DEFINE G == InGroup(c, r)
<1>1. G \subseteq index /\ G \subseteq Rows /\ r \in Rows
  BY DEF InGroup, Files
<1>2. IsFiniteSet(G)
  BY <1>1, FS_Subset
<1>3. Cardinality(G) \in Nat
  BY <1>2, FS_CardinalityType
<1>4. \A x \in G : x.size \in Nat
  BY <1>1, RowValues
<1>5. GroupOf(c, r) = [extension |-> r.ext, count |-> Cardinality(G),
                       size |-> Total([x \in G |-> x.size], G)]
  BY DEF GroupOf, InGroup, SizeOf
<1> HIDE DEF G
<1>6. Total(Weight("count"), G) = Cardinality(G)
  <2>1. \A x \in G : Weight("count")[x] = 1
    BY <1>1 DEF Weight
  <2> QED
    BY <1>2, <2>1, CardinalityIsTotal
<1>7. Total(Weight("size"), G) = Total([x \in G |-> x.size], G)
  <2> DEFINE f == Weight("size")
             g == [x \in G |-> x.size]
  <2>1. \A x \in G : f[x] = g[x]
    BY <1>1 DEF Weight
  <2> HIDE DEF f, g
  <2>2. Total(f, G) = Total(g, G)
    BY <1>2, <2>1, TotalSame
  <2> QED
    BY <2>2 DEF f, g
<1>8. Total([x \in G |-> x.size], G) \in Nat
  <2> DEFINE g == [x \in G |-> x.size]
  <2>1. \A x \in G : g[x] \in Nat
    BY <1>4
  <2> HIDE DEF g
  <2>2. Total(g, G) \in Nat
    BY <1>2, <2>1, TotalType
  <2> QED
    BY <2>2 DEF g
<1>9. r.ext \in Exts
  BY <1>1, RowValues
<1> QED
  BY <1>1, <1>2, <1>3, <1>5, <1>6, <1>7, <1>8, <1>9 DEF ExtensionStat, G

(* The files numbered by rep stand for the groups: every file is in the group
   of one of them. *)
Divides(c, n, rep) ==
  /\ \A i \in 1..n : rep[i] \in Files(c)
  /\ \A r \in Files(c) : \E i \in 1..n : Grouped(c, rep[i], r)
  /\ \A r \in Files(c) : \A i, j \in 1..n :
       Grouped(c, rep[i], r) /\ Grouped(c, rep[j], r) => i = j

(* Every position of the answer to the query stands for one group of files,
   and every file is in one of them. *)
LEMMA OneGroupEach ==
  ASSUME index \subseteq Rows, IsFiniteSet(index), NEW c,
         NEW S \in Representatives(c), NEW s \in SetToSeqs({GroupOf(c, r) : r \in S})
  PROVE  \E n, rep :
           /\ n \in Nat /\ s \in Seq(ExtensionStat) /\ Len(s) = n /\ DOMAIN s = 1..n
           /\ \A i \in 1..n : s[i] = GroupOf(c, rep[i]) /\ rep[i] \in Files(c)
           /\ Divides(c, n, rep)
<1> DEFINE G == {GroupOf(c, r) : r \in S}
           n == Cardinality(G)
           rep == [i \in 1..n |-> CHOOSE r \in S : s[i] = GroupOf(c, r)]
<1>1. S \subseteq Files(c) /\ Files(c) \subseteq index
  BY DEF Representatives, Files
<1>2. IsFiniteSet(S)
  BY <1>1, FS_Subset
<1>3. IsFiniteSet(G)
  <2> DEFINE f == [r \in S |-> GroupOf(c, r)]
  <2>1. f \in Surjection(S, G)
    BY DEF Surjection
  <2> HIDE DEF f, G
  <2> QED
    BY <1>2, <2>1, FS_Surjection
<1>4. /\ s \in Seq(G) /\ Len(s) = n /\ DOMAIN s = 1..n /\ n \in Nat
      /\ \A i \in 1..n : s[i] \in G
      /\ \A i, j \in 1..n : s[i] = s[j] => i = j
      /\ \A g \in G : \E i \in 1..n : s[i] = g
  <2> HIDE DEF G
  <2>1. s \in SetToSeqs(G)
    BY DEF G
  <2>2. /\ s \in Seq(G) /\ Len(s) = Cardinality(G) /\ DOMAIN s = 1..Cardinality(G)
        /\ Cardinality(G) \in Nat
        /\ \A i \in DOMAIN s : s[i] \in G
        /\ \A i, j \in DOMAIN s : s[i] = s[j] => i = j
        /\ \A x \in G : \E i \in DOMAIN s : s[i] = x
    BY <1>3, <2>1, ListOfAll
  <2> QED
    BY <2>2
<1>5. \A i \in 1..n : rep[i] \in S /\ s[i] = GroupOf(c, rep[i])
  <2> HIDE DEF n
  <2>1. \A i \in 1..n : \E r \in S : s[i] = GroupOf(c, r)
    BY <1>4
  <2> QED
    BY <2>1
<1> HIDE DEF n, rep
<1>6. rep \in [1..n -> Files(c)]
  BY <1>1, <1>5 DEF rep
<1>7. s \in Seq(ExtensionStat)
  <2>1. \A i \in 1..n : s[i] \in ExtensionStat
    BY <1>5, <1>6, GroupValues
  <2> QED
    BY <1>4, <2>1
<1>8. ASSUME NEW r \in Files(c)
      PROVE  \E i \in 1..n : Grouped(c, rep[i], r)
  <2>1. PICK q \in S : Grouped(c, r, q)
    BY DEF Representatives
  <2>2. PICK i \in 1..n : s[i] = GroupOf(c, q)
    BY <1>4
  <2>3. rep[i].ext = q.ext
    BY <1>1, <1>5, <1>6, <2>2, GroupValues
  <2> QED
    BY <2>1, <2>3 DEF Grouped
<1>9. ASSUME NEW r \in Files(c), NEW i \in 1..n, NEW j \in 1..n,
             Grouped(c, rep[i], r), Grouped(c, rep[j], r)
      PROVE  i = j
  <2>1. Grouped(c, rep[i], rep[j])
    BY <1>9 DEF Grouped
  <2>2. rep[i] = rep[j]
    BY <1>5, <2>1 DEF Representatives
  <2> QED
    BY <1>4, <1>5, <2>2
<1>10. Divides(c, n, rep)
  BY <1>6, <1>8, <1>9 DEF Divides
<1> QED
  BY <1>4, <1>5, <1>6, <1>7, <1>10
(* What holds for all the files adds up over their groups. *)
LEMMA GroupsAddUp ==
  ASSUME NEW c, IsFiniteSet(Files(c)),
         NEW n \in Nat, NEW rep, Divides(c, n, rep),
         NEW w, \A r \in Files(c) : w[r] \in Nat,
         NEW t, \A i \in 1..n : t[i] = Total(w, InGroup(c, rep[i]))
  PROVE  Total(w, Files(c)) = Total(t, 1..n)
<1> DEFINE F == Files(c)
           key == [r \in F |-> CHOOSE i \in 1..n : Grouped(c, rep[i], r)]
           K == 1..n
           part == [i \in 1..n |-> InGroup(c, rep[i])]
<1>1. \A r \in F : key[r] \in 1..n /\ Grouped(c, rep[key[r]], r)
  BY DEF Divides
<1>2. key \in [F -> K]
  BY <1>1
<1>3. \A i \in K : part[i] \in SUBSET F
  BY DEF InGroup
<1>4. \A i \in K, r \in F : r \in part[i] <=> key[r] = i
  <2> SUFFICES ASSUME NEW i \in 1..n, NEW r \in F
               PROVE  r \in InGroup(c, rep[i]) <=> key[r] = i
    OBVIOUS
  <2>1. key[r] \in 1..n /\ Grouped(c, rep[key[r]], r)
    BY <1>1
  <2>2. r \in InGroup(c, rep[i]) <=> Grouped(c, rep[i], r)
    BY DEF InGroup
  <2> HIDE DEF key
  <2> QED
    BY <2>1, <2>2 DEF Divides
<1>5. \A i \in K : t[i] = Total(w, part[i])
  OBVIOUS
<1>6. IsFiniteSet(K)
  BY FS_Interval
<1>7. IsFiniteSet(F) /\ \A r \in F : w[r] \in Nat
  OBVIOUS
<1>8. Total(w, F) = Total(t, K)
  <2> HIDE DEF F, K, key, part
  <2> QED
    BY <1>2, <1>3, <1>4, <1>5, <1>6, <1>7, TotalByKey
<1> QED
  BY <1>8

-----------------------------------------------------------------------------
(* The weight of every row with an extension: of the others file-stats prints
   no line. *)
NamedWeight(m) == [r \in Rows |-> IF r.ext \in Unnamed THEN 0 ELSE Weight(m)[r]]

(* A column of a list, and that of its groups with an extension. *)
Column(s, m) == [i \in DOMAIN s |-> s[i][m]]
NamedColumn(s, m) == [i \in DOMAIN s |-> IF Named(s[i]) THEN s[i][m] ELSE 0]

SumNamed(s, m) == Total(NamedColumn(s, m), DOMAIN s)

Measures == {"count", "size"}

(* Spellings that the index takes for one extension are all listed, or all
   only counted: file-stats asks this of one spelling of a group. *)
OneKindOfName ==
  \A e, f \in Exts : Lower[e] = Lower[f] => (e \in Unnamed <=> f \in Unnamed)

(* The weights are numbers. *)
LEMMA WeightsAreNumbers ==
  ASSUME NEW r \in Rows, NEW m
  PROVE  Weight(m)[r] \in Nat /\ NamedWeight(m)[r] \in Nat
BY RowValues DEF Weight, NamedWeight

(* The answer to the query adds up to the files asked for. *)
LEMMA QueryAddsUp ==
  ASSUME index \subseteq Rows, IsFiniteSet(index), NEW c,
         NEW S \in Representatives(c), NEW s \in SetToSeqs({GroupOf(c, r) : r \in S}),
         NEW m \in Measures
  PROVE  /\ SumOf(s, m) = Total(Weight(m), Files(c))
         /\ OneKindOfName => SumNamed(s, m) = Total(NamedWeight(m), Files(c))
<1>1. PICK n, rep :
        /\ n \in Nat /\ s \in Seq(ExtensionStat) /\ Len(s) = n /\ DOMAIN s = 1..n
        /\ \A i \in 1..n : s[i] = GroupOf(c, rep[i]) /\ rep[i] \in Files(c)
        /\ Divides(c, n, rep)
  BY OneGroupEach
<1>2. Files(c) \subseteq Rows /\ IsFiniteSet(Files(c))
  <2>1. Files(c) \subseteq index
    BY DEF Files
  <2> QED
    BY <2>1, FS_Subset
<1>3. \A i \in 1..n : s[i][m] = Total(Weight(m), InGroup(c, rep[i]))
  <2> SUFFICES ASSUME NEW i \in 1..n
               PROVE  s[i][m] = Total(Weight(m), InGroup(c, rep[i]))
    OBVIOUS
  <2>1. rep[i] \in Files(c) /\ s[i] = GroupOf(c, rep[i])
    BY <1>1
  <2>2. /\ GroupOf(c, rep[i]).count = Total(Weight("count"), InGroup(c, rep[i]))
        /\ GroupOf(c, rep[i]).size = Total(Weight("size"), InGroup(c, rep[i]))
    BY <2>1, GroupValues
  <2>3. CASE m = "count"
    BY <2>1, <2>2, <2>3
  <2>4. CASE m = "size"
    BY <2>1, <2>2, <2>4
  <2> QED
    BY <2>3, <2>4 DEF Measures
<1>4. SumOf(s, m) = Total(Weight(m), Files(c))
  <2> DEFINE w == Weight(m)
             t == Column(s, m)
  <2>1. \A r \in Files(c) : w[r] \in Nat
    BY <1>2, WeightsAreNumbers
  <2>2. \A i \in 1..n : t[i] = Total(w, InGroup(c, rep[i]))
    BY <1>1, <1>3 DEF Column
  <2> HIDE DEF w, t
  <2>3. Total(w, Files(c)) = Total(t, 1..n)
    BY <1>1, <1>2, <2>1, <2>2, GroupsAddUp
  <2> QED
    BY <1>1, <2>3 DEF w, t, SumOf, Column
<1>5. ASSUME OneKindOfName
      PROVE  SumNamed(s, m) = Total(NamedWeight(m), Files(c))
  <2> DEFINE w == NamedWeight(m)
             t == NamedColumn(s, m)
  <2>1. \A r \in Files(c) : w[r] \in Nat
    BY <1>2, WeightsAreNumbers
  <2>2. ASSUME NEW i \in 1..n
        PROVE  t[i] = Total(w, InGroup(c, rep[i]))
    <3> DEFINE g == InGroup(c, rep[i])
    <3>1. rep[i] \in Files(c) /\ s[i] = GroupOf(c, rep[i])
      BY <1>1
    <3>2. /\ s[i].extension = rep[i].ext /\ rep[i].ext \in Exts
          /\ IsFiniteSet(g) /\ g \subseteq Rows
      BY <3>1, GroupValues
    <3>3. \A q \in g : q.ext \in Unnamed <=> rep[i].ext \in Unnamed
      <4> SUFFICES ASSUME NEW q \in g
                   PROVE  q.ext \in Unnamed <=> rep[i].ext \in Unnamed
        OBVIOUS
      <4>1. q \in Rows /\ q.ext \in Exts /\ Grouped(c, rep[i], q)
        BY <3>2, RowValues DEF InGroup
      <4> QED
        BY <1>5, <3>2, <4>1 DEF Grouped, OneKindOfName
    <3>4. CASE Named(s[i])
      <4>1. \A q \in g : w[q] = Weight(m)[q]
        BY <3>2, <3>3, <3>4 DEF NamedWeight, Named
      <4>2. t[i] = s[i][m]
        BY <1>1, <3>4 DEF NamedColumn
      <4> HIDE DEF w, t, g
      <4>3. Total(w, g) = Total(Weight(m), g)
        BY <3>2, <4>1, TotalSame
      <4> QED
        BY <1>3, <4>2, <4>3 DEF g
    <3>5. CASE ~Named(s[i])
      <4>1. \A q \in g : w[q] = 0
        BY <3>2, <3>3, <3>5 DEF NamedWeight, Named
      <4>2. t[i] = 0
        BY <1>1, <3>5 DEF NamedColumn
      <4> HIDE DEF w, t, g
      <4>3. Total(w, g) = 0
        BY <3>2, <4>1, TotalZero
      <4> QED
        BY <4>2, <4>3 DEF g
    <3> QED
      BY <3>4, <3>5
  <2> HIDE DEF w, t
  <2>3. Total(w, Files(c)) = Total(t, 1..n)
    BY <1>1, <1>2, <2>1, <2>2, GroupsAddUp
  <2> QED
    BY <1>1, <2>3 DEF w, t, SumNamed
<1> QED
  BY <1>4, <1>5

-----------------------------------------------------------------------------
(* An answer consists of rows of the index, whatever the search was. *)
LEMMA AnswersAreRows ==
  ASSUME NEW c
  PROVE  /\ \A S \in SearchServer(c) : S \subseteq index
         /\ \A S \in SearchLocal(c) : S \subseteq index
<1>1. \A text, exts, hosts, limit : \A S \in Search(text, exts, hosts, limit) : S \subseteq index
  BY DEF Search, Limited
<1>2. \A S \in SearchByTag(c) : S \subseteq index
  BY DEF SearchByTag, Limited
<1> QED
  BY <1>1, <1>2 DEF SearchServer, SearchLocal, SearchByHost, SearchByExt, SearchFiles

(* The arguments of every command have a limit. *)
LEMMA LimitsAreNumbers ==
  ASSUME NEW c \in SearchCommand \cup StatsCommand \cup {NoCommand}
  PROVE  c.limit \in Nat
<1>1. Limits \subseteq Nat
  BY QueriesAssumption DEF QueriesAssumption
<1>2. CASE c \in SearchCommand
  BY <1>1, <1>2 DEF SearchCommand
<1>3. CASE c \in StatsCommand
  BY <1>1, <1>3 DEF StatsCommand
<1>4. CASE c = NoCommand
  BY <1>4 DEF NoCommand
<1> QED
  BY <1>2, <1>3, <1>4

(* The head and the rest of the groups that are still to come. *)
LEMMA NextOfGroups ==
  ASSUME NEW s \in Seq(ExtensionStat), s # <<>>
  PROVE  /\ Head(s) = s[1] /\ s[1] \in ExtensionStat
         /\ Tail(s) \in Seq(ExtensionStat) /\ Len(s) \in Nat /\ 1 \in 1..Len(s)
         /\ Len(Tail(s)) = Len(s) - 1 /\ DOMAIN Tail(s) = 1..(Len(s) - 1)
         /\ DOMAIN s = 1..Len(s)
         /\ \A i \in 1..(Len(s) - 1) : Tail(s)[i] = s[i + 1] /\ i + 1 \in 1..Len(s)
OBVIOUS

(* What is appended to a list of rows. *)
LEMMA AppendedRow ==
  ASSUME NEW s \in Seq(ExtensionStat), NEW g \in ExtensionStat
  PROVE  /\ Append(s, g) \in Seq(ExtensionStat) /\ Len(s) \in Nat
         /\ Len(Append(s, g)) = Len(s) + 1 /\ DOMAIN Append(s, g) = 1..(Len(s) + 1)
         /\ DOMAIN s = 1..Len(s)
         /\ \A i \in 1..Len(s) : Append(s, g)[i] = s[i]
         /\ Append(s, g)[Len(s) + 1] = g
OBVIOUS

(* The list is cut at the limit; what is cut off is the rest of it. *)
LEMMA CutAtLimit ==
  ASSUME NEW s \in Seq(ExtensionStat), NEW limit \in Nat
  PROVE  \E k \in 0..Len(s) :
           /\ k <= limit /\ (k < Len(s) => k = limit)
           /\ Trimmed(s, limit) \in Seq(ExtensionStat) /\ Len(Trimmed(s, limit)) = k
           /\ DOMAIN Trimmed(s, limit) = 1..k
           /\ \A i \in 1..k : Trimmed(s, limit)[i] = s[i]
           /\ Rest(s, limit) \in Seq(ExtensionStat) /\ Len(Rest(s, limit)) = Len(s) - k
           /\ DOMAIN Rest(s, limit) = 1..(Len(s) - k)
           /\ \A i \in 1..(Len(s) - k) : Rest(s, limit)[i] = s[i + k]
<1>1. Len(s) \in Nat /\ DOMAIN s = 1..Len(s) /\ \A i \in 1..Len(s) : s[i] \in ExtensionStat
  OBVIOUS
<1>2. CASE Len(s) > limit
  <2>1. /\ Trimmed(s, limit) = [i \in 1..limit |-> s[i]]
        /\ Rest(s, limit) = [i \in 1..(Len(s) - limit) |-> s[i + limit]]
    BY <1>1, <1>2 DEF Trimmed, Rest
  <2>2. limit \in 0..Len(s) /\ Len(s) - limit \in Nat
    BY <1>1, <1>2
  <2>3. /\ \A i \in 1..limit : s[i] \in ExtensionStat
        /\ \A i \in 1..(Len(s) - limit) : s[i + limit] \in ExtensionStat
    BY <1>1, <1>2
  <2> QED
    BY <2>1, <2>2, <2>3
<1>3. CASE Len(s) <= limit
  <2>0. ~(Len(s) > limit) /\ Len(s) - Len(s) = 0 /\ limit + 1 > Len(s)
    BY <1>1, <1>3
  <2>1. Trimmed(s, limit) = s
    BY <2>0 DEF Trimmed
  <2>2. Rest(s, limit) = <<>>
    BY <1>1, <2>0 DEF Rest
  <2>3. Len(s) \in 0..Len(s) /\ 1..0 = {}
    BY <1>1
  <2>4. <<>> \in Seq(ExtensionStat) /\ DOMAIN <<>> = 1..0 /\ Len(<<>>) = 0
    OBVIOUS
  <2>5. Len(s) <= limit /\ (Len(s) < Len(s) => Len(s) = limit)
    <3>1. Len(s) \in Nat
      OBVIOUS
    <3>2. ~(Len(s) < Len(s))
      BY <3>1
    <3> QED
      BY <1>3, <3>2
  <2>6. /\ Trimmed(s, limit) \in Seq(ExtensionStat) /\ Len(Trimmed(s, limit)) = Len(s)
        /\ DOMAIN Trimmed(s, limit) = 1..Len(s)
        /\ \A i \in 1..Len(s) : Trimmed(s, limit)[i] = s[i]
    BY <1>1, <2>1
  <2>7. /\ Rest(s, limit) \in Seq(ExtensionStat) /\ Len(Rest(s, limit)) = Len(s) - Len(s)
        /\ DOMAIN Rest(s, limit) = 1..(Len(s) - Len(s))
        /\ \A i \in 1..(Len(s) - Len(s)) : Rest(s, limit)[i] = s[i + Len(s)]
    BY <2>0, <2>2, <2>3, <2>4
  <2> QED
    BY <2>3, <2>5, <2>6, <2>7
<1>4. Len(s) > limit \/ Len(s) <= limit
  BY <1>1
<1> QED
  BY <1>2, <1>3, <1>4

(* Every step keeps the invariant. *)
LEMMA QueryInvStep ==
  ASSUME QueryInv, [QueriesNext]_queryVars
  PROVE  QueryInv'
<1> USE DEF QueryInv, QueriesTypeOK
<1>0. index \subseteq Rows /\ IsFiniteSet(index)
  OBVIOUS
<1>1. CASE UNCHANGED queryVars
  BY <1>1 DEF queryVars
<1>2. CASE SaveRow
  <2>1. PICK r \in Rows \ index : index' = index \cup {r}
    BY <1>2 DEF SaveRow
  <2>2. IsFiniteSet(index')
    BY <2>1, FS_AddElement
  <2> QED
    BY <1>2, <2>1, <2>2 DEF SaveRow
<1>3. CASE PurgeHost
  <2>1. PICK h : index' = {r \in index : r.host # h}
    BY <1>3 DEF PurgeHost
  <2>2. index' \subseteq index
    BY <2>1
  <2>3. IsFiniteSet(index')
    BY <2>2, FS_Subset
  <2> QED
    BY <1>3, <2>2, <2>3 DEF PurgeHost
<1>4. CASE RunSearch
  <2>0. PICK c \in SearchCommand :
          /\ asked' = c
          /\ \/ Refused(c) /\ answer' = {}
             \/ c.server /\ ~Refused(c) /\ answer' \in SearchServer(c)
             \/ ~c.server /\ answer' \in SearchLocal(c)
          /\ task' = IF Refused(c) THEN "refused" ELSE "search"
    BY <1>4 DEF RunSearch
  <2>1. /\ asked' = c
        /\ answer' = {} \/ answer' \in SearchServer(c) \/ answer' \in SearchLocal(c)
        /\ task' \in {"search", "refused"}
        /\ task' # "search" => answer' = {}
    BY <2>0 DEF Refused
  <2>2. answer' \subseteq index
    BY <2>1, AnswersAreRows
  <2>3. c.limit \in Nat
    BY LimitsAreNumbers
  <2>4. report' = NoReport /\ Len(report'.listed) <= asked'.limit
    BY <1>4, <2>1, <2>3 DEF RunSearch, NoReport
  <2> QED
    BY <1>4, <2>1, <2>2, <2>4 DEF RunSearch
<1>5. CASE RunFileStats
  <2>0. PICK c \in StatsCommand :
          \E S \in Representatives(c) :
            asked' = c /\ groups' \in SetToSeqs({GroupOf(c, r) : r \in S})
    BY <1>5 DEF RunFileStats
  <2>1. PICK S \in Representatives(c) :
          asked' = c /\ groups' \in SetToSeqs({GroupOf(c, r) : r \in S})
    BY <2>0
  <2>s. PICK s \in SetToSeqs({GroupOf(c, r) : r \in S}) : groups' = s
    BY <2>1
  <2>2. PICK n, rep :
          /\ s \in Seq(ExtensionStat) /\ DOMAIN s = 1..n
          /\ \A i \in 1..n : s[i] = GroupOf(c, rep[i]) /\ rep[i] \in Files(c)
    BY <1>0, OneGroupEach
  <2>3. \A i \in 1..n : s[i].extension \in Exts
    BY <1>0, <2>2, GroupValues
  <2>4. c.limit \in Nat
    BY LimitsAreNumbers
  <2>5. report' = NoReport /\ Len(report'.listed) <= asked'.limit
    BY <1>5, <2>1, <2>4 DEF RunFileStats, NoReport
  <2> QED
    BY <1>5, <2>1, <2>s, <2>2, <2>3, <2>5 DEF RunFileStats
<1>6. CASE NextGroup
  <2> DEFINE g == groups[1]
             s == [g EXCEPT !.extension = Lower[@]]
  <2>1. /\ g \in ExtensionStat /\ g.extension \in Exts /\ Head(groups) = g
        /\ groups' \in Seq(ExtensionStat)
        /\ \A i \in DOMAIN groups' : groups'[i].extension \in Exts
    BY <1>6, NextOfGroups DEF NextGroup
  <2>2. s \in ExtensionStat /\ g.count \in Nat /\ g.size \in Nat
    BY <2>1 DEF ExtensionStat
  <2>3. all' = [stats |-> IF Named(g) THEN Append(all.stats, s) ELSE all.stats,
                count |-> all.count + g.count,
                size  |-> all.size + g.size]
    BY <1>6, <2>1 DEF NextGroup
  <2> HIDE DEF g, s
  <2>4. all' \in [stats : Seq(ExtensionStat), count : Nat, size : Nat]
    BY <2>2, <2>3
  <2> QED
    BY <1>6, <2>1, <2>4 DEF NextGroup
<1>7. CASE PrintReport
  <2>1. all.stats \in Seq(ExtensionStat) /\ asked.limit \in Nat
    BY LimitsAreNumbers
  <2>2. /\ Trimmed(all.stats, asked.limit) \in Seq(ExtensionStat)
        /\ Len(Trimmed(all.stats, asked.limit)) <= asked.limit
    BY <2>1, CutAtLimit
  <2>3. report'.listed = Trimmed(all.stats, asked.limit)
    BY <1>7 DEF PrintReport
  <2> QED
    BY <1>7, <2>2, <2>3 DEF PrintReport
<1>8. CASE Leave
  BY <1>8 DEF Leave, NoCommand, NoStats, NoReport
<1> QED
  BY <1>1, <1>2, <1>3, <1>4, <1>5, <1>6, <1>7, <1>8 DEF QueriesNext

(* The invariant holds from the beginning. *)
LEMMA QueryInvAlways == QueriesSpec => []QueryInv
<1>1. QueriesInit => QueryInv
  <2>1. IsFiniteSet({})
    BY FS_EmptySet
  <2> QED
    BY <2>1 DEF QueriesInit, QueryInv, QueriesTypeOK, NoCommand, NoStats, NoReport
<1> QED
  BY <1>1, QueryInvStep, PTL DEF QueriesSpec

(* QueriesTypeOK: the index only holds rows, an answer only rows of the index,
   and a list never exceeds the limit that was asked for. *)
THEOREM QueriesTypeCorrect == QueriesSpec => []QueriesTypeOK
<1>1. QueryInv => QueriesTypeOK
  BY DEF QueryInv
<1> QED
  BY <1>1, QueryInvAlways, PTL

-----------------------------------------------------------------------------
(* The entries of a column are numbers. *)
LEMMA ColumnsAreNumbers ==
  ASSUME NEW s \in Seq(ExtensionStat), NEW m \in Measures
  PROVE  /\ \A i \in 1..Len(s) : s[i][m] \in Nat /\ Column(s, m)[i] = s[i][m]
         /\ \A i \in 1..Len(s) :
              /\ NamedColumn(s, m)[i] \in Nat
              /\ NamedColumn(s, m)[i] = IF Named(s[i]) THEN s[i][m] ELSE 0
         /\ SumOf(s, m) \in Nat /\ SumNamed(s, m) \in Nat
         /\ SumOf(s, m) = Total(Column(s, m), 1..Len(s))
         /\ SumNamed(s, m) = Total(NamedColumn(s, m), 1..Len(s))
<1>1. DOMAIN s = 1..Len(s) /\ Len(s) \in Nat /\ IsFiniteSet(1..Len(s))
  BY FS_Interval
<1>2. \A i \in 1..Len(s) : s[i][m] \in Nat
  <2> SUFFICES ASSUME NEW i \in 1..Len(s)
               PROVE  s[i][m] \in Nat
    OBVIOUS
  <2>1. s[i].count \in Nat /\ s[i].size \in Nat
    <3>1. s[i] \in ExtensionStat
      BY <1>1
    <3> QED
      BY <3>1 DEF ExtensionStat
  <2> QED
    BY <2>1 DEF Measures
<1>3. \A i \in 1..Len(s) : Column(s, m)[i] = s[i][m]
  BY <1>1 DEF Column
<1>4. \A i \in 1..Len(s) :
        /\ NamedColumn(s, m)[i] \in Nat
        /\ NamedColumn(s, m)[i] = IF Named(s[i]) THEN s[i][m] ELSE 0
  BY <1>1, <1>2 DEF NamedColumn
<1>5. /\ SumOf(s, m) = Total(Column(s, m), 1..Len(s))
      /\ SumNamed(s, m) = Total(NamedColumn(s, m), 1..Len(s))
  BY <1>1 DEF SumOf, SumNamed, Column
<1>6. /\ Total(Column(s, m), 1..Len(s)) \in Nat
      /\ Total(NamedColumn(s, m), 1..Len(s)) \in Nat
  BY <1>1, <1>2, <1>3, <1>4, TotalType
<1> QED
  BY <1>2, <1>3, <1>4, <1>5, <1>6

(* The sums of a list, and of its tail. *)
LEMMA SumsOfTail ==
  ASSUME NEW s \in Seq(ExtensionStat), s # <<>>, NEW m \in Measures
  PROVE  /\ SumOf(s, m) = s[1][m] + SumOf(Tail(s), m)
         /\ SumNamed(s, m) = (IF Named(s[1]) THEN s[1][m] ELSE 0) + SumNamed(Tail(s), m)
         /\ s[1][m] \in Nat
<1> DEFINE n == Len(s)
           r == Tail(s)
<1>1. /\ n \in Nat /\ n # 0 /\ 1 \in 1..n /\ r \in Seq(ExtensionStat) /\ Len(r) = n - 1
      /\ \A i \in 1..(n - 1) : r[i] = s[i + 1] /\ i + 1 \in 1..n
  BY NextOfGroups
<1> HIDE DEF n, r
<1>2. /\ \A i \in 1..n : s[i][m] \in Nat /\ Column(s, m)[i] = s[i][m]
      /\ \A i \in 1..n : /\ NamedColumn(s, m)[i] \in Nat
                         /\ NamedColumn(s, m)[i] = IF Named(s[i]) THEN s[i][m] ELSE 0
      /\ SumOf(s, m) = Total(Column(s, m), 1..n)
      /\ SumNamed(s, m) = Total(NamedColumn(s, m), 1..n)
  BY ColumnsAreNumbers DEF n
<1>3. /\ \A i \in 1..(n - 1) : Column(r, m)[i] = r[i][m]
      /\ \A i \in 1..(n - 1) : NamedColumn(r, m)[i] = IF Named(r[i]) THEN r[i][m] ELSE 0
      /\ SumOf(r, m) = Total(Column(r, m), 1..(n - 1))
      /\ SumNamed(r, m) = Total(NamedColumn(r, m), 1..(n - 1))
  BY <1>1, ColumnsAreNumbers
<1>4. Total(Column(s, m), 1..n) = Column(s, m)[1] + Total(Column(r, m), 1..(n - 1))
  <2> DEFINE f == Column(s, m)
             g == Column(r, m)
  <2>1. \A i \in 1..n : f[i] \in Nat
    BY <1>2
  <2>2. \A i \in 1..(n - 1) : g[i] = f[i + 1]
    BY <1>1, <1>2, <1>3
  <2> HIDE DEF f, g
  <2> QED
    BY <1>1, <2>1, <2>2, TotalFirst DEF f, g
<1>5. Total(NamedColumn(s, m), 1..n)
        = NamedColumn(s, m)[1] + Total(NamedColumn(r, m), 1..(n - 1))
  <2> DEFINE f == NamedColumn(s, m)
             g == NamedColumn(r, m)
  <2>1. \A i \in 1..n : f[i] \in Nat
    BY <1>2
  <2>2. \A i \in 1..(n - 1) : g[i] = f[i + 1]
    BY <1>1, <1>2, <1>3
  <2> HIDE DEF f, g
  <2> QED
    BY <1>1, <2>1, <2>2, TotalFirst DEF f, g
<1> QED
  BY <1>1, <1>2, <1>3, <1>4, <1>5 DEF r

(* The sum of a list with another row at its end. *)
LEMMA SumOfAppend ==
  ASSUME NEW s \in Seq(ExtensionStat), NEW g \in ExtensionStat, NEW m \in Measures
  PROVE  SumOf(Append(s, g), m) = SumOf(s, m) + g[m]
<1> DEFINE n == Len(s)
           a == Append(s, g)
<1>1. /\ n \in Nat /\ a \in Seq(ExtensionStat) /\ Len(a) = n + 1 /\ a[n + 1] = g
      /\ \A i \in 1..n : a[i] = s[i]
  BY AppendedRow
<1> HIDE DEF n, a
<1>2. /\ \A i \in 1..n : Column(s, m)[i] = s[i][m]
      /\ SumOf(s, m) = Total(Column(s, m), 1..n)
  BY ColumnsAreNumbers DEF n
<1>3. /\ \A i \in 1..(n + 1) : a[i][m] \in Nat /\ Column(a, m)[i] = a[i][m]
      /\ SumOf(a, m) = Total(Column(a, m), 1..(n + 1))
  BY <1>1, ColumnsAreNumbers
<1>4. \A i \in 1..n : i \in 1..(n + 1)
  BY <1>1
<1>5. Total(Column(a, m), 1..(n + 1)) = Total(Column(s, m), 1..n) + Column(a, m)[n + 1]
  <2> DEFINE f == Column(a, m)
             h == Column(s, m)
  <2>1. \A i \in 1..(n + 1) : f[i] \in Nat
    BY <1>3
  <2>2. \A i \in 1..n : h[i] = f[i]
    BY <1>1, <1>2, <1>3, <1>4
  <2> HIDE DEF f, h
  <2> QED
    BY <1>1, <2>1, <2>2, TotalLast DEF f, h
<1>6. n + 1 \in 1..(n + 1)
  BY <1>1
<1> QED
  BY <1>1, <1>2, <1>3, <1>5, <1>6 DEF a

(* What is cut off is not lost. *)
LEMMA SumsOfCut ==
  ASSUME NEW s \in Seq(ExtensionStat), NEW limit \in Nat, NEW m \in Measures
  PROVE  /\ SumOf(s, m) = SumOf(Trimmed(s, limit), m) + SumOf(Rest(s, limit), m)
         /\ SumOf(Trimmed(s, limit), m) \in Nat /\ SumOf(Rest(s, limit), m) \in Nat
<1> DEFINE n == Len(s)
           t == Trimmed(s, limit)
           r == Rest(s, limit)
<1>1. PICK k \in 0..n :
        /\ t \in Seq(ExtensionStat) /\ Len(t) = k
        /\ \A i \in 1..k : t[i] = s[i]
        /\ r \in Seq(ExtensionStat) /\ Len(r) = n - k
        /\ \A i \in 1..(n - k) : r[i] = s[i + k]
  BY CutAtLimit
<1>2. n \in Nat
  OBVIOUS
<1>3. Len(r) = n - k /\ \A i \in 1..k : i \in 1..n
  <2> HIDE DEF n
  <2> QED
    BY <1>1, <1>2
<1> HIDE DEF n, t, r
<1>4. /\ \A i \in 1..n : s[i][m] \in Nat /\ Column(s, m)[i] = s[i][m]
      /\ SumOf(s, m) = Total(Column(s, m), 1..n)
  BY ColumnsAreNumbers DEF n
<1>5. /\ \A i \in 1..k : Column(t, m)[i] = t[i][m]
      /\ SumOf(t, m) = Total(Column(t, m), 1..k) /\ SumOf(t, m) \in Nat
  BY <1>1, ColumnsAreNumbers
<1>6. /\ \A i \in 1..(n - k) : Column(r, m)[i] = r[i][m]
      /\ SumOf(r, m) = Total(Column(r, m), 1..(n - k)) /\ SumOf(r, m) \in Nat
  BY <1>1, <1>3, ColumnsAreNumbers
<1>7. Total(Column(s, m), 1..n) = Total(Column(s, m), 1..k) + Total(Column(r, m), 1..(n - k))
  <2> DEFINE f == Column(s, m)
             g == Column(r, m)
  <2>1. \A i \in 1..n : f[i] \in Nat
    BY <1>4
  <2>2. \A i \in 1..(n - k) : g[i] = f[i + k]
    <3>1. \A i \in 1..(n - k) : i + k \in 1..n
      BY <1>2
    <3> QED
      BY <1>1, <1>4, <1>6, <3>1
  <2> HIDE DEF f, g
  <2> QED
    BY <1>2, <2>1, <2>2, TotalSplit DEF f, g
<1>8. Total(Column(s, m), 1..k) = Total(Column(t, m), 1..k)
  <2> DEFINE S == 1..k
  <2>1. IsFiniteSet(S) /\ \A i \in S : Column(s, m)[i] = Column(t, m)[i]
    <3>1. k \in Int /\ 1 \in Int
      BY <1>2
    <3>2. IsFiniteSet(S)
      BY <3>1, FS_Interval
    <3>3. \A i \in 1..k : Column(s, m)[i] = Column(t, m)[i]
      BY <1>1, <1>3, <1>4, <1>5
    <3> QED
      BY <3>2, <3>3
  <2> HIDE DEF S
  <2> QED
    BY <2>1, TotalSame DEF S
<1> QED
  BY <1>4, <1>5, <1>6, <1>7, <1>8 DEF t, r

-----------------------------------------------------------------------------
(* Between two groups: what has been added up, and what is still to come, make
   up the files asked for, and the list those with an extension. *)
Tally ==
  task = "stats" => \A m \in Measures :
    /\ all[m] + SumOf(groups, m) = Total(Weight(m), Files(asked))
    /\ OneKindOfName =>
         SumOf(all.stats, m) + SumNamed(groups, m) = Total(NamedWeight(m), Files(asked))

(* At first nothing has been added up. *)
LEMMA NothingAddedUp ==
  ASSUME NEW m \in Measures
  PROVE  /\ NoStats[m] = 0 /\ NoStats.stats = <<>>
         /\ SumOf(<<>>, m) = 0 /\ SumNamed(<<>>, m) = 0
<1>1. DOMAIN <<>> = {}
  OBVIOUS
<1>2. SumOf(<<>>, m) = 0 /\ SumNamed(<<>>, m) = 0
  BY <1>1, TotalEmpty DEF SumOf, SumNamed
<1>3. NoStats[m] = 0 /\ NoStats.stats = <<>>
  BY DEF NoStats, Measures
<1> QED
  BY <1>2, <1>3

(* One turn of the loop adds a group to both sums, or to one of them. *)
LEMMA NextGroupTally ==
  ASSUME QueryInv, NextGroup, NEW m \in Measures
  PROVE  /\ all'[m] + SumOf(groups', m) = all[m] + SumOf(groups, m)
         /\ SumOf(all'.stats, m) + SumNamed(groups', m)
              = SumOf(all.stats, m) + SumNamed(groups, m)
<1> DEFINE g == groups[1]
           s == [g EXCEPT !.extension = Lower[@]]
           r == Tail(groups)
<1>1. /\ groups \in Seq(ExtensionStat) /\ groups # <<>>
      /\ all.stats \in Seq(ExtensionStat) /\ all.count \in Nat /\ all.size \in Nat
      /\ groups' = r
  BY DEF QueryInv, QueriesTypeOK, NextGroup
<1>2. /\ g \in ExtensionStat /\ g.extension \in Exts /\ Head(groups) = g
      /\ r \in Seq(ExtensionStat)
  BY <1>1, NextOfGroups DEF QueryInv
<1>3. s \in ExtensionStat /\ s[m] = g[m]
  BY <1>2 DEF ExtensionStat, Measures
<1>4. all' = [stats |-> IF Named(g) THEN Append(all.stats, s) ELSE all.stats,
              count |-> all.count + g.count,
              size  |-> all.size + g.size]
  BY <1>2 DEF NextGroup
<1>5. /\ SumOf(groups, m) = g[m] + SumOf(r, m)
      /\ SumNamed(groups, m) = (IF Named(g) THEN g[m] ELSE 0) + SumNamed(r, m)
      /\ g[m] \in Nat
  BY <1>1, SumsOfTail
<1> HIDE DEF g, s, r
<1>6. SumOf(r, m) \in Nat /\ SumNamed(r, m) \in Nat /\ SumOf(all.stats, m) \in Nat
  BY <1>1, <1>2, ColumnsAreNumbers
<1>7. all'[m] = all[m] + g[m] /\ all[m] \in Nat
  <2>1. CASE m = "count"
    BY <1>1, <1>4, <2>1
  <2>2. CASE m = "size"
    BY <1>1, <1>4, <2>2
  <2> QED
    BY <2>1, <2>2 DEF Measures
<1>8. SumOf(Append(all.stats, s), m) = SumOf(all.stats, m) + g[m]
  BY <1>1, <1>3, SumOfAppend
<1>9. SumOf(all'.stats, m) = SumOf(all.stats, m) + (IF Named(g) THEN g[m] ELSE 0)
  BY <1>4, <1>6, <1>8
<1>10. all'[m] + SumOf(groups', m) = all[m] + SumOf(groups, m)
  BY <1>1, <1>5, <1>6, <1>7
<1>11. SumOf(all'.stats, m) + SumNamed(groups', m)
         = SumOf(all.stats, m) + SumNamed(groups, m)
  BY <1>1, <1>5, <1>6, <1>9
<1> QED
  BY <1>10, <1>11

(* Every step keeps the tally. *)
LEMMA TallyStep ==
  ASSUME QueryInv, Tally, [QueriesNext]_queryVars
  PROVE  Tally'
<1>1. CASE UNCHANGED queryVars
  BY <1>1 DEF queryVars, Tally, Files
<1>2. CASE RunFileStats
  <2>0. PICK c \in StatsCommand :
          \E S \in Representatives(c) :
            asked' = c /\ groups' \in SetToSeqs({GroupOf(c, r) : r \in S})
    BY <1>2 DEF RunFileStats
  <2>1. PICK S \in Representatives(c) :
          asked' = c /\ groups' \in SetToSeqs({GroupOf(c, r) : r \in S})
    BY <2>0
  <2>2. PICK s \in SetToSeqs({GroupOf(c, r) : r \in S}) : groups' = s
    BY <2>1
  <2>3. index \subseteq Rows /\ IsFiniteSet(index)
    BY DEF QueryInv, QueriesTypeOK
  <2>4. all' = NoStats /\ index' = index
    BY <1>2 DEF RunFileStats, QueryInv
  <2>5. Files(asked)' = Files(c)
    BY <2>1, <2>4 DEF Files
  <2>6. ASSUME NEW m \in Measures
        PROVE  /\ all'[m] + SumOf(groups', m) = Total(Weight(m), Files(c))
               /\ OneKindOfName =>
                    SumOf(all'.stats, m) + SumNamed(groups', m) = Total(NamedWeight(m), Files(c))
    <3>1. /\ SumOf(s, m) = Total(Weight(m), Files(c))
          /\ OneKindOfName => SumNamed(s, m) = Total(NamedWeight(m), Files(c))
      BY <2>3, QueryAddsUp
    <3>2. PICK n, rep : s \in Seq(ExtensionStat)
      BY <2>3, OneGroupEach
    <3>3. SumOf(s, m) \in Nat /\ SumNamed(s, m) \in Nat
      BY <3>2, ColumnsAreNumbers
    <3> QED
      BY <2>2, <2>4, <3>1, <3>3, NothingAddedUp
  <2> QED
    BY <2>5, <2>6 DEF Tally
<1>3. CASE NextGroup
  <2>1. task = "stats" /\ Files(asked)' = Files(asked)
    BY <1>3 DEF NextGroup, Files
  <2> QED
    BY <1>3, <2>1, NextGroupTally DEF Tally
<1>4. CASE SaveRow \/ PurgeHost \/ RunSearch \/ PrintReport \/ Leave
  <2>1. task' # "stats"
    BY <1>4 DEF SaveRow, PurgeHost, RunSearch, PrintReport, Leave
  <2> QED
    BY <2>1 DEF Tally
<1> QED
  BY <1>1, <1>2, <1>3, <1>4 DEF QueriesNext

(* What the weights of files add up to. *)
LEMMA WeightsOfFiles ==
  ASSUME NEW F \in SUBSET Rows, IsFiniteSet(F),
         NEW N \in SUBSET F, \A r \in F : r \in N <=> r.ext \notin Unnamed
  PROVE  /\ Total(Weight("count"), F) = Cardinality(F)
         /\ Total(Weight("size"), F) = SizeOf(F)
         /\ Total(NamedWeight("count"), F) = Cardinality(N)
         /\ Total(NamedWeight("size"), F) = SizeOf(N)
         /\ SizeOf(F) = SizeOf(N) + SizeOf(F \ N)
         /\ SizeOf(N) \in Nat /\ SizeOf(F \ N) \in Nat
<1>1. ASSUME NEW G \in SUBSET F
      PROVE  /\ IsFiniteSet(G)
             /\ Total(Weight("count"), G) = Cardinality(G)
             /\ Total(Weight("size"), G) = SizeOf(G)
             /\ SizeOf(G) \in Nat
  <2>1. IsFiniteSet(G) /\ G \subseteq Rows
    BY FS_Subset
  <2>2. \A r \in G : Weight("count")[r] = 1
    BY <2>1 DEF Weight
  <2>3. Total(Weight("count"), G) = Cardinality(G)
    BY <2>1, <2>2, CardinalityIsTotal
  <2> DEFINE f == Weight("size")
             g == [r \in G |-> r.size]
  <2>4. \A r \in G : f[r] = g[r] /\ f[r] \in Nat
    BY <2>1, RowValues DEF Weight
  <2>5. SizeOf(G) = Total(g, G)
    BY DEF SizeOf
  <2> HIDE DEF f, g
  <2>6. Total(f, G) = Total(g, G) /\ Total(f, G) \in Nat
    BY <2>1, <2>4, TotalSame, TotalType
  <2> QED
    BY <2>1, <2>3, <2>5, <2>6 DEF f
<1>2. ASSUME NEW m \in Measures
      PROVE  Total(NamedWeight(m), F) = Total(Weight(m), N)
  <2> DEFINE f == Weight(m)
             g == NamedWeight(m)
  <2>1. /\ \A r \in N : f[r] \in Nat /\ g[r] = f[r]
        /\ \A r \in F \ N : g[r] = 0
    BY WeightsAreNumbers DEF NamedWeight
  <2> HIDE DEF f, g
  <2> QED
    BY <2>1, TotalPart DEF f, g
<1>3. Total(Weight("size"), F) = Total(Weight("size"), N) + Total(Weight("size"), F \ N)
  <2> DEFINE f == Weight("size")
             R == F \ N
  <2>1. N \cap R = {} /\ N \cup R = F /\ R \subseteq F
    OBVIOUS
  <2>2. \A r \in N \cup R : f[r] \in Nat
    BY <2>1, WeightsAreNumbers
  <2>3. IsFiniteSet(N) /\ IsFiniteSet(R)
    BY <1>1, <2>1
  <2> HIDE DEF f, R
  <2>4. Total(f, N \cup R) = Total(f, N) + Total(f, R)
    BY <2>1, <2>2, <2>3, TotalUnion
  <2> QED
    BY <2>1, <2>4 DEF f, R
<1>4. "count" \in Measures /\ "size" \in Measures /\ F \ N \in SUBSET F /\ F \in SUBSET F
  BY DEF Measures
<1> QED
  BY <1>1, <1>2, <1>3, <1>4

(* The report of a tally that is complete. *)
LEMMA ReportOfTally ==
  ASSUME QueryInv, Tally, OneKindOfName, PrintReport
  PROVE  ReportBalances'
<1> DEFINE F == Files(asked)
           N == {r \in F : r.ext \notin Unnamed}
           L == Trimmed(all.stats, asked.limit)
           R == Rest(all.stats, asked.limit)
<1>1. /\ task = "stats" /\ groups = <<>> /\ all.stats \in Seq(ExtensionStat)
      /\ all.count \in Nat /\ all.size \in Nat /\ asked.limit \in Nat
  BY LimitsAreNumbers DEF PrintReport, QueryInv, QueriesTypeOK
<1>2. F \in SUBSET Rows /\ IsFiniteSet(F) /\ N \in SUBSET F
      /\ \A r \in F : r \in N <=> r.ext \notin Unnamed
  <2>1. F \subseteq index /\ index \subseteq Rows /\ IsFiniteSet(index)
    BY DEF Files, QueryInv, QueriesTypeOK
  <2>2. IsFiniteSet(F)
    BY <2>1, FS_Subset
  <2> QED
    BY <2>1, <2>2
<1>3. /\ Total(Weight("count"), F) = Cardinality(F)
      /\ Total(Weight("size"), F) = SizeOf(F)
      /\ Total(NamedWeight("count"), F) = Cardinality(N)
      /\ Total(NamedWeight("size"), F) = SizeOf(N)
      /\ SizeOf(F) = SizeOf(N) + SizeOf(F \ N)
      /\ SizeOf(N) \in Nat /\ SizeOf(F \ N) \in Nat
  <2> HIDE DEF F, N
  <2> QED
    BY <1>2, WeightsOfFiles
<1>4. ASSUME NEW m \in Measures
      PROVE  /\ all[m] = Total(Weight(m), F)
             /\ SumOf(L, m) + SumOf(R, m) = Total(NamedWeight(m), F)
             /\ SumOf(L, m) \in Nat /\ SumOf(R, m) \in Nat
  <2>1. /\ all[m] + SumOf(groups, m) = Total(Weight(m), F)
        /\ SumOf(all.stats, m) + SumNamed(groups, m) = Total(NamedWeight(m), F)
    BY <1>1 DEF Tally
  <2>2. SumOf(groups, m) = 0 /\ SumNamed(groups, m) = 0
    BY <1>1, NothingAddedUp
  <2>3. /\ SumOf(all.stats, m) = SumOf(L, m) + SumOf(R, m)
        /\ SumOf(L, m) \in Nat /\ SumOf(R, m) \in Nat
    BY <1>1, SumsOfCut
  <2>4. all[m] \in Nat
    BY <1>1 DEF Measures
  <2> HIDE DEF F, L, R
  <2> QED
    BY <2>1, <2>2, <2>3, <2>4
<1>5. "count" \in Measures /\ "size" \in Measures
  BY DEF Measures
<1>6. /\ all.count = Cardinality(F) /\ all.size = SizeOf(F)
      /\ SumOf(L, "count") + SumOf(R, "count") = Cardinality(N)
      /\ SumOf(L, "size") + SumOf(R, "size") = SizeOf(N)
      /\ SumOf(L, "size") \in Nat /\ SumOf(R, "size") \in Nat
  <2> HIDE DEF F, N, L, R
  <2> QED
    BY <1>3, <1>4, <1>5
<1>7. SumOf(L, "size") + SizeOf(F \ N) = all.size - SumOf(R, "size")
  <2> HIDE DEF F, N, L, R
  <2> QED
    BY <1>3, <1>6
<1>8. /\ report'.listed = L
      /\ report'.totalCount = all.count /\ report'.totalSize = all.size
      /\ report'.size = all.size - SumOf(R, "size")
      /\ report'.otherCount = SumOf(R, "count") /\ report'.otherSize = SumOf(R, "size")
  BY DEF PrintReport
<1>9. Files(asked)' = F
  BY DEF PrintReport, Files
<1> HIDE DEF F, L, R
<1> QED
  BY <1>6, <1>7, <1>8, <1>9 DEF ReportBalances

(* The totals of the report, for which the names of the extensions do not
   matter. *)
Totalled ==
  task = "report" => /\ report.totalCount = Cardinality(Files(asked))
                     /\ report.totalSize = SizeOf(Files(asked))

(* The totals of a tally that is complete. *)
LEMMA TotalsOfTally ==
  ASSUME QueryInv, Tally, PrintReport
  PROVE  Totalled'
<1> DEFINE F == Files(asked)
           N == {r \in F : r.ext \notin Unnamed}
<1>1. /\ task = "stats" /\ groups = <<>> /\ all.count \in Nat /\ all.size \in Nat
  BY DEF PrintReport, QueryInv
<1>2. F \in SUBSET Rows /\ IsFiniteSet(F) /\ N \in SUBSET F
      /\ \A r \in F : r \in N <=> r.ext \notin Unnamed
  <2>1. F \subseteq index /\ index \subseteq Rows /\ IsFiniteSet(index)
    BY DEF Files, QueryInv, QueriesTypeOK
  <2>2. IsFiniteSet(F)
    BY <2>1, FS_Subset
  <2> QED
    BY <2>1, <2>2
<1>3. Total(Weight("count"), F) = Cardinality(F) /\ Total(Weight("size"), F) = SizeOf(F)
  <2> HIDE DEF F, N
  <2> QED
    BY <1>2, WeightsOfFiles
<1>4. ASSUME NEW m \in Measures
      PROVE  all[m] = Total(Weight(m), F)
  <2>1. all[m] + SumOf(groups, m) = Total(Weight(m), F) /\ SumOf(groups, m) = 0
    BY <1>1, NothingAddedUp DEF Tally
  <2>2. all[m] \in Nat
    BY <1>1 DEF Measures
  <2> HIDE DEF F
  <2> QED
    BY <2>1, <2>2
<1>5. all.count = Cardinality(F) /\ all.size = SizeOf(F)
  <2>1. "count" \in Measures /\ "size" \in Measures
    BY DEF Measures
  <2> HIDE DEF F
  <2> QED
    BY <1>3, <1>4, <2>1
<1>6. /\ report'.totalCount = all.count /\ report'.totalSize = all.size
      /\ Files(asked)' = F
  BY DEF PrintReport, Files
<1> HIDE DEF F
<1> QED
  BY <1>5, <1>6 DEF Totalled

(* The totals that file-stats prints are those of the files of the index, or
   of the host that was asked for: no group of the query is added twice, and
   none is left out. *)
THEOREM TotalsAreComplete == QueriesSpec => []Totalled
<1>1. QueriesInit => Tally /\ Totalled
  BY DEF QueriesInit, Tally, Totalled
<1>2. ASSUME QueryInv, Tally, Totalled, [QueriesNext]_queryVars
      PROVE  Totalled'
  <2>1. CASE UNCHANGED queryVars
    BY <1>2, <2>1 DEF queryVars, Totalled, Files
  <2>2. CASE PrintReport
    BY <1>2, <2>2, TotalsOfTally
  <2>3. CASE SaveRow \/ PurgeHost \/ RunSearch \/ RunFileStats \/ NextGroup \/ Leave
    <3>1. task' # "report"
      BY <2>3 DEF SaveRow, PurgeHost, RunSearch, RunFileStats, NextGroup, Leave
    <3> QED
      BY <3>1 DEF Totalled
  <2> QED
    BY <1>2, <2>1, <2>2, <2>3 DEF QueriesNext
<1>3. QueryInv /\ Tally /\ [QueriesNext]_queryVars => Tally'
  BY TallyStep
<1> QED
  BY <1>1, <1>2, <1>3, QueryInvAlways, PTL DEF QueriesSpec

(* ReportBalances: what file-stats prints adds up to the files of the index,
   provided that no group of the query mixes spellings that are listed with
   spellings that are only counted. *)
THEOREM ReportBalancesAlways ==
  ASSUME OneKindOfName
  PROVE  QueriesSpec => []ReportBalances
<1>1. QueriesInit => Tally /\ ReportBalances
  BY DEF QueriesInit, Tally, ReportBalances
<1>2. ASSUME QueryInv, Tally, ReportBalances, [QueriesNext]_queryVars
      PROVE  ReportBalances'
  <2>1. CASE UNCHANGED queryVars
    BY <1>2, <2>1 DEF queryVars, ReportBalances, Files
  <2>2. CASE PrintReport
    BY <1>2, <2>2, ReportOfTally
  <2>3. CASE SaveRow \/ PurgeHost \/ RunSearch \/ RunFileStats \/ NextGroup \/ Leave
    <3>1. task' # "report"
      BY <2>3 DEF SaveRow, PurgeHost, RunSearch, RunFileStats, NextGroup, Leave
    <3> QED
      BY <3>1 DEF ReportBalances
  <2> QED
    BY <1>2, <2>1, <2>2, <2>3 DEF QueriesNext
<1>3. QueryInv /\ Tally /\ [QueriesNext]_queryVars => Tally'
  BY TallyStep
<1> QED
  BY <1>1, <1>2, <1>3, QueryInvAlways, PTL DEF QueriesSpec

-----------------------------------------------------------------------------
(* An entry that has the numbers of the group of r. *)
SameNumbers(g, r) ==
  g.count = GroupOf(asked, r).count /\ g.size = GroupOf(asked, r).size

(* The group of r is in the list, under the extension in lower case, ... *)
InList(r) ==
  \E i \in DOMAIN all.stats :
    all.stats[i].extension = Lower[r.ext] /\ SameNumbers(all.stats[i], r)

(* ... or will be listed. *)
StillToCome(r) ==
  \E i \in DOMAIN groups :
    /\ Named(groups[i]) /\ Lower[groups[i].extension] = Lower[r.ext]
    /\ SameNumbers(groups[i], r)

(* Between two groups: the list and the groups that are still to come are in
   the order that was asked for, and no extension is lost between them. *)
Ranked ==
  task = "stats" =>
    /\ \A i, j \in DOMAIN groups : i < j => Ahead(asked, groups[i], groups[j])
    /\ \A i, j \in DOMAIN all.stats : i < j => Ahead(asked, all.stats[i], all.stats[j])
    /\ \A i \in DOMAIN all.stats, j \in DOMAIN groups :
         Ahead(asked, all.stats[i], groups[j])
    /\ \A r \in Files(asked) : r.ext \notin Unnamed => InList(r) \/ StillToCome(r)

(* The order is one of the numbers of two groups. *)
LEMMA AheadByNumbers ==
  ASSUME NEW c, NEW g, NEW h, NEW f, g.count = f.count, g.size = f.size
  PROVE  /\ Ahead(c, g, h) <=> Ahead(c, f, h)
         /\ Ahead(c, h, g) <=> Ahead(c, h, f)
BY DEF Ahead

(* The query has a group for every extension. *)
LEMMA QueryIsComplete ==
  ASSUME index \subseteq Rows, IsFiniteSet(index), OneKindOfName, NEW c,
         NEW S \in Representatives(c), NEW s \in SetToSeqs({GroupOf(c, r) : r \in S}),
         NEW r \in Files(c), r.ext \notin Unnamed
  PROVE  \E i \in DOMAIN s :
           /\ Named(s[i]) /\ Lower[s[i].extension] = Lower[r.ext]
           /\ s[i].count = GroupOf(c, r).count /\ s[i].size = GroupOf(c, r).size
<1>1. PICK n, rep :
        /\ n \in Nat /\ s \in Seq(ExtensionStat) /\ Len(s) = n /\ DOMAIN s = 1..n
        /\ \A i \in 1..n : s[i] = GroupOf(c, rep[i]) /\ rep[i] \in Files(c)
        /\ Divides(c, n, rep)
  BY OneGroupEach
<1>2. PICK i \in 1..n : Grouped(c, rep[i], r)
  BY <1>1 DEF Divides
<1>3. s[i] = GroupOf(c, rep[i]) /\ rep[i] \in Files(c)
  BY <1>1
<1>4. s[i].extension = rep[i].ext /\ rep[i].ext \in Exts /\ r.ext \in Exts
  BY <1>3, GroupValues
<1>5. Lower[rep[i].ext] = Lower[r.ext] /\ (rep[i].ext \in Unnamed <=> r.ext \in Unnamed)
  BY <1>2, <1>4 DEF Grouped, OneKindOfName
<1>6. InGroup(c, rep[i]) = InGroup(c, r)
  BY <1>2 DEF InGroup, Grouped
<1>7. s[i].count = GroupOf(c, r).count /\ s[i].size = GroupOf(c, r).size
  BY <1>3, <1>6 DEF GroupOf, InGroup
<1> QED
  BY <1>1, <1>4, <1>5, <1>7 DEF Named

(* One turn of the loop moves a group from what is to come to the list. *)
LEMMA NextGroupRanked ==
  ASSUME QueryInv, Ranked, NextGroup
  PROVE  Ranked'
<1> DEFINE g == groups[1]
           s == [g EXCEPT !.extension = Lower[@]]
           r == Tail(groups)
           n == Len(groups)
           k == Len(all.stats)
<1>1. /\ groups \in Seq(ExtensionStat) /\ groups # <<>> /\ task = "stats"
      /\ all.stats \in Seq(ExtensionStat)
      /\ groups' = r /\ asked' = asked /\ index' = index
  BY DEF QueryInv, QueriesTypeOK, NextGroup
<1>2. /\ g \in ExtensionStat /\ g.extension \in Exts /\ Head(groups) = g
      /\ n \in Nat /\ 1 \in 1..n /\ DOMAIN groups = 1..n /\ DOMAIN r = 1..(n - 1)
      /\ \A i \in 1..(n - 1) : r[i] = groups[i + 1] /\ i + 1 \in 1..n
  BY <1>1, NextOfGroups DEF QueryInv
<1>3. /\ s \in ExtensionStat /\ s.count = g.count /\ s.size = g.size
      /\ s.extension = Lower[g.extension]
  BY <1>2 DEF ExtensionStat
<1>4. all'.stats = IF Named(g) THEN Append(all.stats, s) ELSE all.stats
  BY <1>2 DEF NextGroup
<1>5. /\ \A i, j \in 1..n : i < j => Ahead(asked, groups[i], groups[j])
      /\ \A i, j \in DOMAIN all.stats : i < j => Ahead(asked, all.stats[i], all.stats[j])
      /\ \A i \in DOMAIN all.stats, j \in 1..n : Ahead(asked, all.stats[i], groups[j])
      /\ \A q \in Files(asked) : q.ext \notin Unnamed => InList(q) \/ StillToCome(q)
  BY <1>1, <1>2 DEF Ranked
<1>6. /\ k \in Nat /\ DOMAIN all.stats = 1..k
      /\ DOMAIN Append(all.stats, s) = 1..(k + 1)
      /\ \A i \in 1..k : Append(all.stats, s)[i] = all.stats[i]
      /\ Append(all.stats, s)[k + 1] = s
  BY <1>1, <1>3, AppendedRow
<1> HIDE DEF g, s, r, n, k
<1>7. \A i, j \in 1..(n - 1) : i < j => Ahead(asked, r[i], r[j])
  BY <1>2, <1>5
<1>8. /\ \A i \in 1..k : Ahead(asked, all.stats[i], s)
      /\ \A j \in 1..(n - 1) : Ahead(asked, s, r[j])
  <2>1. \A i \in 1..k : Ahead(asked, all.stats[i], g)
    BY <1>2, <1>5, <1>6 DEF g
  <2>2. ASSUME NEW j \in 1..(n - 1)
        PROVE  Ahead(asked, g, r[j])
    <3>1. j + 1 \in 1..n /\ 1 < j + 1
      BY <1>2
    <3> QED
      BY <1>2, <1>5, <3>1 DEF g
  <2> QED
    BY <1>3, <2>1, <2>2, AheadByNumbers
<1>9. \A i \in 1..k, j \in 1..(n - 1) : Ahead(asked, all.stats[i], r[j])
  BY <1>2, <1>5, <1>6
<1> DEFINE t == all'.stats
<1>10. /\ \A i, j \in DOMAIN t : i < j => Ahead(asked, t[i], t[j])
       /\ \A i \in DOMAIN t, j \in 1..(n - 1) : Ahead(asked, t[i], r[j])
       /\ \A i \in 1..k : i \in DOMAIN t /\ t[i] = all.stats[i]
       /\ Named(g) => \E i \in DOMAIN t : t[i] = s
  <2>1. CASE Named(g)
    <3>1. /\ DOMAIN t = 1..(k + 1) /\ t[k + 1] = s
          /\ \A i \in 1..k : t[i] = all.stats[i]
      BY <1>4, <1>6, <2>1
    <3>2. /\ \A i \in 1..(k + 1) : i \in 1..k \/ i = k + 1
          /\ \A i \in 1..k : i \in 1..(k + 1)
          /\ k + 1 \in 1..(k + 1)
          /\ \A i, j \in 1..(k + 1) : i < j => i \in 1..k
      BY <1>6
    <3> HIDE DEF t
    <3>3. ASSUME NEW i \in 1..(k + 1), NEW j \in 1..(k + 1), i < j
          PROVE  Ahead(asked, t[i], t[j])
      <4>1. CASE j \in 1..k
        BY <1>5, <1>6, <3>1, <3>2, <3>3, <4>1
      <4>2. CASE j = k + 1
        BY <1>8, <3>1, <3>2, <3>3, <4>2
      <4> QED
        BY <3>2, <4>1, <4>2
    <3>4. ASSUME NEW i \in 1..(k + 1), NEW j \in 1..(n - 1)
          PROVE  Ahead(asked, t[i], r[j])
      BY <1>8, <1>9, <3>1, <3>2
    <3> QED
      BY <3>1, <3>2, <3>3, <3>4
  <2>2. CASE ~Named(g)
    <3>1. t = all.stats
      BY <1>4, <2>2
    <3> QED
      BY <1>5, <1>6, <1>9, <2>2, <3>1
  <2> QED
    BY <2>1, <2>2
<1>11. ASSUME NEW q \in Files(asked), q.ext \notin Unnamed
       PROVE  InList(q)' \/ StillToCome(q)'
  <2>1. GroupOf(asked, q)' = GroupOf(asked, q)
    BY <1>1 DEF GroupOf, Files
  <2>2. CASE InList(q)
    <3>1. PICK i \in 1..k :
            /\ all.stats[i].extension = Lower[q.ext]
            /\ all.stats[i].count = GroupOf(asked, q).count
            /\ all.stats[i].size = GroupOf(asked, q).size
      BY <1>6, <2>2 DEF InList, SameNumbers
    <3>2. i \in DOMAIN t /\ t[i] = all.stats[i]
      BY <1>10
    <3>3. InList(q)'
      BY <2>1, <3>1, <3>2 DEF InList, SameNumbers
    <3> QED
      BY <3>3
  <2>3. CASE StillToCome(q)
    <3>1. PICK i \in 1..n :
            /\ Named(groups[i]) /\ Lower[groups[i].extension] = Lower[q.ext]
            /\ groups[i].count = GroupOf(asked, q).count
            /\ groups[i].size = GroupOf(asked, q).size
      BY <1>2, <2>3 DEF StillToCome, SameNumbers
    <3>2. CASE i = 1
      <4>1. PICK j \in DOMAIN t : t[j] = s
        BY <1>10, <3>1, <3>2 DEF g
      <4>2. /\ s.extension = Lower[q.ext] /\ s.count = GroupOf(asked, q).count
            /\ s.size = GroupOf(asked, q).size
        BY <1>3, <3>1, <3>2 DEF g
      <4>3. InList(q)'
        BY <2>1, <4>1, <4>2 DEF InList, SameNumbers
      <4> QED
        BY <4>3
    <3>3. CASE i # 1
      <4>1. i - 1 \in 1..(n - 1) /\ (i - 1) + 1 = i
        BY <1>2, <3>3
      <4>2. r[i - 1] = groups[i] /\ i - 1 \in DOMAIN groups' /\ groups'[i - 1] = groups[i]
        BY <1>1, <1>2, <4>1
      <4>3. StillToCome(q)'
        BY <2>1, <3>1, <4>2 DEF StillToCome, SameNumbers
      <4> QED
        BY <4>3
    <3> QED
      BY <3>2, <3>3
  <2> QED
    BY <1>5, <1>11, <2>2, <2>3
<1>12. Files(asked)' = Files(asked) /\ DOMAIN groups' = 1..(n - 1)
  BY <1>1, <1>2 DEF Files
<1> QED
  BY <1>1, <1>7, <1>10, <1>11, <1>12 DEF Ranked

(* Every step keeps the list and the groups in order. *)
LEMMA RankedStep ==
  ASSUME QueryInv, OneKindOfName, Ranked, [QueriesNext]_queryVars
  PROVE  Ranked'
<1>1. CASE UNCHANGED queryVars
  <2>1. \A r : GroupOf(asked, r)' = GroupOf(asked, r)
    BY <1>1 DEF queryVars, GroupOf, Files
  <2> QED
    BY <1>1, <2>1 DEF queryVars, Ranked, Files, InList, StillToCome, SameNumbers
<1>2. CASE RunFileStats
  <2>0. PICK c \in StatsCommand :
          \E S \in Representatives(c) :
            /\ asked' = c
            /\ groups' \in {s \in SetToSeqs({GroupOf(c, r) : r \in S}) :
                              \A i, j \in DOMAIN s : i < j => Ahead(c, s[i], s[j])}
    BY <1>2 DEF RunFileStats
  <2>1. PICK S \in Representatives(c) :
          /\ asked' = c
          /\ groups' \in {s \in SetToSeqs({GroupOf(c, r) : r \in S}) :
                            \A i, j \in DOMAIN s : i < j => Ahead(c, s[i], s[j])}
    BY <2>0
  <2>2. PICK s \in SetToSeqs({GroupOf(c, r) : r \in S}) :
          groups' = s /\ \A i, j \in DOMAIN s : i < j => Ahead(c, s[i], s[j])
    BY <2>1
  <2>3. index \subseteq Rows /\ IsFiniteSet(index)
    BY DEF QueryInv, QueriesTypeOK
  <2>4. all' = NoStats /\ index' = index /\ all'.stats = <<>> /\ DOMAIN <<>> = {}
    BY <1>2 DEF RunFileStats, QueryInv, NoStats
  <2>5. Files(asked)' = Files(c) /\ \A r : GroupOf(asked, r)' = GroupOf(c, r)
    BY <2>1, <2>4 DEF Files, GroupOf
  <2>6. ASSUME NEW r \in Files(c), r.ext \notin Unnamed
        PROVE  StillToCome(r)'
    <3>1. PICK i \in DOMAIN s :
            /\ Named(s[i]) /\ Lower[s[i].extension] = Lower[r.ext]
            /\ s[i].count = GroupOf(c, r).count /\ s[i].size = GroupOf(c, r).size
      BY <2>3, <2>6, QueryIsComplete
    <3> QED
      BY <2>2, <2>5, <3>1 DEF StillToCome, SameNumbers
  <2> QED
    BY <2>1, <2>2, <2>4, <2>5, <2>6 DEF Ranked
<1>3. CASE NextGroup
  BY <1>3, NextGroupRanked
<1>4. CASE SaveRow \/ PurgeHost \/ RunSearch \/ PrintReport \/ Leave
  <2>1. task' # "stats"
    BY <1>4 DEF SaveRow, PurgeHost, RunSearch, PrintReport, Leave
  <2> QED
    BY <2>1 DEF Ranked
<1> QED
  BY <1>1, <1>2, <1>3, <1>4 DEF QueriesNext

(* The list of a report that is ordered and complete. *)
LEMMA ReportIsTop ==
  ASSUME QueryInv, Ranked, PrintReport
  PROVE  TopListed'
<1> DEFINE L == Trimmed(all.stats, asked.limit)
           n == Len(all.stats)
<1>1. /\ task = "stats" /\ groups = <<>> /\ all.stats \in Seq(ExtensionStat)
      /\ asked.limit \in Nat /\ asked \in StatsCommand
      /\ asked' = asked /\ index' = index /\ report'.listed = L
  BY LimitsAreNumbers DEF PrintReport, QueryInv, QueriesTypeOK
<1>2. /\ n \in Nat /\ DOMAIN all.stats = 1..n
      /\ \A i \in 1..n : all.stats[i] \in ExtensionStat
  BY <1>1
<1>3. PICK k \in 0..n :
        /\ k <= asked.limit /\ (k < n => k = asked.limit)
        /\ Len(L) = k /\ DOMAIN L = 1..k /\ \A i \in 1..k : L[i] = all.stats[i]
  BY <1>1, CutAtLimit
<1> HIDE DEF L, n
<1>4. /\ \A i, j \in 1..n : i < j => Ahead(asked, all.stats[i], all.stats[j])
      /\ \A r \in Files(asked) : r.ext \notin Unnamed => InList(r)
  <2>1. DOMAIN groups = {}
    BY <1>1
  <2> QED
    BY <1>1, <1>2, <2>1 DEF Ranked, StillToCome
<1>5. ASSUME asked.descending, asked.orderBy # "extension",
             NEW r \in Files(asked), r.ext \notin Unnamed,
             \A i \in 1..k : L[i].extension # Lower[r.ext]
      PROVE  /\ k = asked.limit
             /\ asked.orderBy = "count" =>
                  \A i \in 1..k : L[i].count >= GroupOf(asked, r).count
             /\ asked.orderBy # "count" =>
                  \A i \in 1..k : L[i].size >= GroupOf(asked, r).size
  <2>1. PICK p \in 1..n :
          /\ all.stats[p].extension = Lower[r.ext]
          /\ all.stats[p].count = GroupOf(asked, r).count
          /\ all.stats[p].size = GroupOf(asked, r).size
    BY <1>2, <1>4, <1>5 DEF InList, SameNumbers
  <2>2. p \notin 1..k
    BY <1>3, <1>5, <2>1
  <2>3. k < n /\ \A i \in 1..k : i < p /\ i \in 1..n
    BY <1>2, <2>2
  <2>4. \A i \in 1..k : Ahead(asked, L[i], all.stats[p])
    BY <1>3, <1>4, <2>3
  <2>5. CASE asked.orderBy = "count"
    BY <1>3, <1>5, <2>1, <2>3, <2>4, <2>5 DEF Ahead
  <2>6. CASE asked.orderBy = "total_size"
    BY <1>3, <1>5, <2>1, <2>3, <2>4, <2>6 DEF Ahead
  <2>7. asked.orderBy \in {"total_size", "count", "extension"}
    BY <1>1 DEF StatsCommand
  <2> QED
    BY <1>5, <2>5, <2>6, <2>7
<1>6. Files(asked)' = Files(asked) /\ \A r : GroupOf(asked, r)' = GroupOf(asked, r)
  BY <1>1 DEF Files, GroupOf
<1> QED
  BY <1>1, <1>3, <1>5, <1>6 DEF TopListed

(* TopListed: in descending order file-stats lists the extensions with the
   most files, or bytes, under the same condition on spellings. *)
THEOREM TopListedAlways ==
  ASSUME OneKindOfName
  PROVE  QueriesSpec => []TopListed
<1>1. QueriesInit => Ranked /\ TopListed
  BY DEF QueriesInit, Ranked, TopListed
<1>2. ASSUME QueryInv, Ranked, TopListed, [QueriesNext]_queryVars
      PROVE  TopListed'
  <2>1. CASE UNCHANGED queryVars
    <3>1. Files(asked)' = Files(asked) /\ \A r : GroupOf(asked, r)' = GroupOf(asked, r)
      BY <2>1 DEF queryVars, Files, GroupOf
    <3> QED
      BY <1>2, <2>1, <3>1 DEF queryVars, TopListed
  <2>2. CASE PrintReport
    BY <1>2, <2>2, ReportIsTop
  <2>3. CASE SaveRow \/ PurgeHost \/ RunSearch \/ RunFileStats \/ NextGroup \/ Leave
    <3>1. task' # "report"
      BY <2>3 DEF SaveRow, PurgeHost, RunSearch, RunFileStats, NextGroup, Leave
    <3> QED
      BY <3>1 DEF TopListed
  <2> QED
    BY <1>2, <2>1, <2>2, <2>3 DEF QueriesNext
<1>3. QueryInv /\ Ranked /\ [QueriesNext]_queryVars => Ranked'
  BY RankedStep
<1> QED
  BY <1>1, <1>2, <1>3, QueryInvAlways, PTL DEF QueriesSpec
==============================================================================
