------------------------------- MODULE Catalog -------------------------------
(***************************************************************************)
(* What HashUp promises as a whole: the index holds files that scanners    *)
(* have announced, each one enters it at most once, and the files of a     *)
(* host leave it together, when an administrator deletes that host.        *)
(*                                                                         *)
(* Messages, redeliveries, SQL statements and processes do not appear      *)
(* here: the module Listener is shown to implement this one.               *)
(***************************************************************************)
CONSTANTS Files, Hosts

VARIABLES
  sent,     \* the files scanners have announced
  catalog   \* the files the index holds

catalogVars == <<sent, catalog>>

CatalogInit == sent = {} /\ catalog = {}

(* A scanner announces a file; it may do so again, for the same contents. *)
Send(f) ==
  /\ sent' = sent \cup {f}
  /\ UNCHANGED catalog

Index(f) ==
  /\ f \in sent \ catalog
  /\ catalog' = catalog \cup {f}
  /\ UNCHANGED sent

Purge(h) ==
  /\ catalog' = {f \in catalog : f.host # h}
  /\ UNCHANGED sent

CatalogNext ==
  \/ \E f \in Files : Send(f) \/ Index(f)
  \/ \E h \in Hosts : Purge(h)

CatalogSpec == CatalogInit /\ [][CatalogNext]_catalogVars
=============================================================================
