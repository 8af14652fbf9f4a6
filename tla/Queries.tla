-------------------------------- MODULE Queries --------------------------------
(***************************************************************************)
(* Two commands of hs that do more than print one SELECT: `hs search`,     *)
(* which queries the index itself or asks the HTTP API to                  *)
(* (cmd/hs/search.go, internal/api/api.go, internal/db/db.go), and         *)
(* `hs file-stats` (cmd/hs/file_stats.go), which sums up the groups of a   *)
(* SELECT and lists the first of them.                                     *)
(*                                                                         *)
(* A SELECT sees one state of the index, so that the index only changes    *)
(* between commands here.  Of the text of a file only the word that a      *)
(* search finds it by is kept.                                             *)
(***************************************************************************)
EXTENDS Totals, Integers, SequencesExt

CONSTANTS
  Rows,          \* rows that may be in the index
  Empty,         \* the empty string: any text, no filter, no extension
  Lower,         \* strings.ToLower on extensions
  Unnamed,       \* extensions that are only counted: "" and "unknown"
  Limits,        \* values of --limit
  DefaultLimit   \* 100 in the code

Texts == {r.word : r \in Rows} \cup {Empty}
Exts  == {r.ext : r \in Rows} \cup {Empty}
Hosts == {r.host : r \in Rows} \cup {Empty}
Tags  == {r.tag : r \in Rows} \cup {Empty}

ASSUME QueriesAssumption ==
  /\ \A r \in Rows : /\ DOMAIN r = {"id", "word", "ext", "host", "tag", "date", "size"}
                     /\ r.date \in Nat /\ r.size \in Nat
                     /\ \A q \in Rows : q.id = r.id => q = r
  /\ DOMAIN Lower = Exts
  /\ Empty \in Unnamed
  /\ Limits \subseteq Nat /\ DefaultLimit \in Nat

VARIABLES
  index,    \* rows of file_info, with their tags
  task,     \* of hs
  asked,    \* its arguments
  answer,   \* of a search
  groups,   \* of file-stats: rows of the SELECT that are still to come
  all,      \* ExtensionStats so far
  report    \* what is printed

queryVars == <<index, task, asked, answer, groups, all, report>>

-----------------------------------------------------------------------------
SearchCommand == [server : BOOLEAN, text : Texts, host : Hosts, ext : Exts,
                  tag : Tags, limit : Limits]
StatsCommand  == [orderBy : {"total_size", "count", "extension"},
                  descending : BOOLEAN, host : Hosts, limit : Limits]
NoCommand     == [limit |-> 0]

(* A row of the query, or an entry of the list, which is in lower case. *)
ExtensionStat == [extension : Exts \cup {Lower[e] : e \in Exts}, count : Nat, size : Nat]
NoStats       == [stats |-> <<>>, count |-> 0, size |-> 0]
NoReport      == [listed |-> <<>>, totalCount |-> 0, totalSize |-> 0,
                  size |-> 0, otherCount |-> 0, otherSize |-> 0]

QueriesTypeOK ==
  /\ index \subseteq Rows
  /\ task \in {"none", "search", "refused", "stats", "report"}
  /\ asked \in SearchCommand \cup StatsCommand \cup {NoCommand}
  /\ answer \subseteq index
  /\ groups \in Seq(ExtensionStat)
  /\ all.stats \in Seq(ExtensionStat)
  /\ report.listed \in Seq(ExtensionStat) /\ Len(report.listed) <= asked.limit

QueriesInit ==
  /\ index = {} /\ task = "none" /\ asked = NoCommand
  /\ answer = {} /\ groups = <<>> /\ all = NoStats /\ report = NoReport

-----------------------------------------------------------------------------
(* A store process saves a file. *)
SaveRow ==
  /\ task = "none"
  /\ \E r \in Rows \ index : index' = index \cup {r}
  /\ UNCHANGED <<task, asked, answer, groups, all, report>>

(* hs admin delete-host *)
PurgeHost ==
  /\ task = "none"
  /\ \E h \in Hosts \ {Empty} : index' = {r \in index : r.host # h}
  /\ UNCHANGED <<task, asked, answer, groups, all, report>>

(* LIMIT: as many rows as there are, up to the limit. *)
Limited(rows, limit) ==
  {S \in SUBSET rows :
     Cardinality(S) = IF Cardinality(rows) <= limit THEN Cardinality(rows) ELSE limit}

(* LIKE '%text%' *)
Matches(r, text) == text \in {Empty, r.word}

(* db.Search: an empty list is no filter; ORDER BY modified_date DESC decides
   what the limit keeps. *)
Search(text, exts, hosts, limit) ==
  LET rows == {r \in index : /\ Matches(r, text)
                             /\ exts = {} \/ r.ext \in exts
                             /\ hosts = {} \/ r.host \in hosts}
  IN {S \in Limited(rows, limit) : \A r \in S, q \in rows \ S : r.date >= q.date}

(* searchByTag, which does not look at the other arguments. *)
SearchByTag(c) == Limited({r \in index : r.tag = c.tag}, c.limit)

(* searchByExt asks for the flag "ext", which the command does not have. *)
SearchByExt(c) == Search(c.text, {Empty}, {}, c.limit)

SearchByHost(c) == Search(c.text, {}, {c.host}, c.limit)
SearchFiles(c)  == Search(c.text, {}, {}, DefaultLimit)

SearchLocal(c) ==
  IF c.tag # Empty THEN SearchByTag(c)
  ELSE IF c.host # Empty THEN SearchByHost(c)
  ELSE IF c.ext # Empty THEN SearchByExt(c)
  ELSE SearchFiles(c)

(* Mutant of Given: the empty parameter is a filter like any other. *)
GivenAlways(value) == {value}

(* searchHandler: what Client.Search has joined to one string, which is empty
   for the list of an empty string. *)
Given(value) == {value} \ {Empty}

(* searchServer: --tag is not sent. *)
SearchServer(c) == Search(c.text, Given(c.ext), Given(c.host), c.limit)

(* searchHandler answers 400 to an empty text. *)
Refused(c) == c.server /\ c.text = Empty

RunSearch ==
  /\ task = "none"
  /\ \E c \in SearchCommand :
       /\ asked' = c
       /\ \/ Refused(c) /\ answer' = {}
          \/ c.server /\ ~Refused(c) /\ answer' \in SearchServer(c)
          \/ ~c.server /\ answer' \in SearchLocal(c)
       /\ task' = IF Refused(c) THEN "refused" ELSE "search"
  /\ UNCHANGED <<index, groups, all, report>>

-----------------------------------------------------------------------------
Files(c) == {r \in index : c.host = Empty \/ r.host = c.host}

SizeOf(rows)    == Total([r \in rows |-> r.size], rows)
SumOf(stats, m) == Total([i \in DOMAIN stats |-> stats[i][m]], DOMAIN stats)

(* GROUP BY extension COLLATE NOCASE; with a host, without the COLLATE. *)
Grouped(c, r, q) ==
  IF c.host = Empty THEN Lower[r.ext] = Lower[q.ext] ELSE r.ext = q.ext

(* The group of a row; the column extension is that of any row of it. *)
GroupOf(c, r) ==
  LET rows == {q \in Files(c) : Grouped(c, r, q)}
  IN [extension |-> r.ext, count |-> Cardinality(rows), size |-> SizeOf(rows)]

Representatives(c) ==
  {S \in SUBSET Files(c) : /\ \A r \in Files(c) : \E q \in S : Grouped(c, r, q)
                           /\ \A r, q \in S : Grouped(c, r, q) => r = q}

(* Mutant of Ahead: ASC where the user asked for DESC. *)
AheadSwapped(c, g, h) ==
  CASE c.orderBy = "count"      -> IF c.descending THEN g.count <= h.count ELSE g.count >= h.count
    [] c.orderBy = "total_size" -> IF c.descending THEN g.size <= h.size ELSE g.size >= h.size
    [] OTHER -> TRUE

(* ORDER BY; the order of the extensions themselves is left open. *)
Ahead(c, g, h) ==
  CASE c.orderBy = "count"      -> IF c.descending THEN g.count >= h.count ELSE g.count <= h.count
    [] c.orderBy = "total_size" -> IF c.descending THEN g.size >= h.size ELSE g.size <= h.size
    [] OTHER -> TRUE

(* fileStats: the query. *)
RunFileStats ==
  /\ task = "none"
  /\ \E c \in StatsCommand : \E S \in Representatives(c) :
       /\ asked' = c
       /\ groups' \in {s \in SetToSeqs({GroupOf(c, r) : r \in S}) :
                         \A i, j \in DOMAIN s : i < j => Ahead(c, s[i], s[j])}
  /\ task' = "stats"
  /\ UNCHANGED <<index, answer, all, report>>

(* Mutant of Named: files without an extension are listed too. *)
AllNamed(g) == TRUE

Named(g) == g.extension \notin Unnamed

(* fileStats: the loop over its rows. *)
NextGroup ==
  /\ task = "stats" /\ groups # <<>>
  /\ LET g == Head(groups)
         s == [g EXCEPT !.extension = Lower[@]]
     IN all' = [stats |-> IF Named(g) THEN Append(all.stats, s) ELSE all.stats,
                count |-> all.count + g.count,
                size  |-> all.size + g.size]
  /\ groups' = Tail(groups)
  /\ UNCHANGED <<index, task, asked, answer, report>>

(* Mutant of Trimmed: the list is not cut. *)
Untrimmed(stats, limit) == stats

(* stats[:limit], if there are more *)
Trimmed(stats, limit) ==
  IF Len(stats) > limit THEN SubSeq(stats, 1, limit) ELSE stats

(* Mutant of Rest: the sum starts after the first one that is cut off. *)
RestButOne(stats, limit) == SubSeq(stats, limit + 2, Len(stats))

(* What the loop from limit to the end adds up to "Other". *)
Rest(stats, limit) == SubSeq(stats, limit + 1, Len(stats))

(* jsonStats; printStats prints the same numbers. *)
PrintReport ==
  /\ task = "stats" /\ groups = <<>>
  /\ LET rest == Rest(all.stats, asked.limit)
     IN report' = [listed     |-> Trimmed(all.stats, asked.limit),
                   totalCount |-> all.count,
                   totalSize  |-> all.size,
                   size       |-> all.size - SumOf(rest, "size"),
                   otherCount |-> SumOf(rest, "count"),
                   otherSize  |-> SumOf(rest, "size")]
  /\ task' = "report"
  /\ UNCHANGED <<index, asked, answer, groups, all>>

Leave ==
  /\ task \in {"search", "refused", "report"}
  /\ task' = "none" /\ asked' = NoCommand
  /\ answer' = {} /\ groups' = <<>> /\ all' = NoStats /\ report' = NoReport
  /\ UNCHANGED index

QueriesNext ==
  \/ SaveRow \/ PurgeHost
  \/ RunSearch
  \/ RunFileStats \/ NextGroup \/ PrintReport
  \/ Leave

QueriesSpec == QueriesInit /\ [][QueriesNext]_queryVars

-----------------------------------------------------------------------------
(* A search through the server, when it is not refused, finds what the same
   search finds in the index itself, as far as the local one looks at the same
   arguments: the detour through lists, joined strings and parameters changes
   no filter. *)
ServerAgrees ==
  (/\ task = "search" /\ asked.server
   /\ asked.tag = Empty /\ asked.ext = Empty
   /\ asked.host # Empty \/ asked.limit = DefaultLimit)
    => answer \in SearchLocal(asked)

(* The totals are those of the files asked for, and each of these with an
   extension is counted once, in the list or in "Other"; the size of the list
   includes the files without one. *)
ReportBalances ==
  task = "report" =>
    LET files == Files(asked)
        named == {r \in files : r.ext \notin Unnamed}
    IN /\ report.totalCount = Cardinality(files)
       /\ report.totalSize = SizeOf(files)
       /\ SumOf(report.listed, "count") + report.otherCount = Cardinality(named)
       /\ SumOf(report.listed, "size") + report.otherSize = SizeOf(named)
       /\ SumOf(report.listed, "size") + SizeOf(files \ named) = report.size

(* In descending order the list holds the extensions with the most files (or
   bytes): none that is missing from it has more than one that is in it, and
   none is missing while there is room. *)
TopListed ==
  (task = "report" /\ asked.descending /\ asked.orderBy # "extension") =>
    LET measure == IF asked.orderBy = "count" THEN "count" ELSE "size"
        listed  == {report.listed[i].extension : i \in DOMAIN report.listed}
        missing == {GroupOf(asked, r) :
                      r \in {q \in Files(asked) : /\ q.ext \notin Unnamed
                                                  /\ Lower[q.ext] \notin listed}}
    IN \A g \in missing :
         /\ Len(report.listed) = asked.limit
         /\ \A i \in DOMAIN report.listed : report.listed[i][measure] >= g[measure]

(* "Filter by file extension" (search.go): the files that a local search for
   an extension, without other filters, finds have that extension. *)
ExtensionFilters ==
  (/\ task = "search" /\ ~asked.server
   /\ asked.ext # Empty /\ asked.host = Empty /\ asked.tag = Empty)
    => \A r \in answer : r.ext = asked.ext
=============================================================================
