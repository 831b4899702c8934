----------------------------- MODULE BlackBook -----------------------------
(***************************************************************************)
(* The Black Book, a registry of authorities, services and licences        *)
(* (server/src/blackbook.ts).  An import validates its dataset by itself,  *)
(* reads all entries, and then creates, updates or leaves each of its      *)
(* records by what it read, all or nothing.  Two unique indexes, on the    *)
(* keys and on the numbers of versions, refuse what rests on an outdated   *)
(* read; a record that it left alone rests on nothing.                     *)
(***************************************************************************)
EXTENDS Naturals, FiniteSets

CONSTANTS Keys, Importers, MaxVersion, None

ASSUME BlackBookConstants == None \notin Keys /\ MaxVersion \in Nat

VARIABLES
  entry,    \* blackbook_entries: payload and current version
  versions, \* blackbook_entry_versions
  import,   \* the dataset of every import under way, and the entries it read
  last,     \* history: the dataset of the last import that committed
  overlap   \* history: two imports were under way at once

blackBookVars == <<entry, versions, import, last, overlap>>

NoEntry == [payload |-> None, version |-> 0]

BlackBookInit ==
  /\ entry = [k \in Keys |-> NoEntry]
  /\ versions = {}
  /\ import = [i \in Importers |-> None]
  /\ last = [k \in {} |-> None]
  /\ overlap = FALSE

----------------------------------------------------------------------------

\* A licence names the authority that issues it; revisions of a record differ in nothing else.
Payloads == [category : {"regulator", "service"}, authority : {None}] \cup [category : {"licence_type"}, authority : Keys]

\* References resolve within the dataset, which may leave out whole categories.
ValidateDataset(d) ==
  \A k \in DOMAIN d : d[k].category = "licence_type" =>
    d[k].authority \in DOMAIN d /\ d[d[k].authority].category = "regulator"

Datasets == {d \in UNION {[ks -> Payloads] : ks \in SUBSET Keys \ {{}}} : ValidateDataset(d)}

ReadExisting(i, d) ==
  /\ import[i] = None
  /\ import' = [import EXCEPT ![i] = [dataset |-> d, existing |-> entry]]
  /\ overlap' = (overlap \/ \E j \in Importers : import[j] # None)
  /\ UNCHANGED <<entry, versions, last>>

\* The key was created, or the next version written, since it was read.
Refused(read, changed) ==
  \E k \in changed : IF read[k].version = 0 THEN entry[k].version # 0
                     ELSE \E v \in versions : v.key = k /\ v.version = read[k].version + 1

ImportDataset(i) ==
  LET d == import[i].dataset
      read == import[i].existing
      changed == {k \in DOMAIN d : read[k].payload # d[k]}
      written(k) == [payload |-> d[k], version |-> read[k].version + 1]
  IN /\ import[i] # None
     /\ IF Refused(read, changed) THEN UNCHANGED <<entry, versions, last>>
        ELSE /\ \A k \in changed : read[k].version < MaxVersion
             /\ entry' = [k \in Keys |-> IF k \in changed THEN written(k) ELSE entry[k]]
             /\ versions' = versions \cup {[key |-> k, version |-> written(k).version, payload |-> d[k]] : k \in changed}
             /\ last' = d
     /\ import' = [import EXCEPT ![i] = None]
     /\ UNCHANGED overlap

BlackBookNext == \E i \in Importers : ImportDataset(i) \/ \E d \in Datasets : ReadExisting(i, d)

----------------------------------------------------------------------------
(* Properties.                                                             *)

\* However imports overlap, every entry has one version of each number up to its own,
\* the last of which it shows, and what a licence refers to is in the registry.  While
\* they come one at a time, the registry is as the last import says.  (That an
\* authority stays one is not promised: a later dataset without the licence may turn
\* it into a service.)
BlackBookSound ==
  /\ \A k \in Keys :
       /\ {v.version : v \in {v \in versions : v.key = k}} = 1..entry[k].version
       /\ Cardinality({v \in versions : v.key = k}) = entry[k].version
       /\ entry[k].version > 0 =>
            /\ [key |-> k, version |-> entry[k].version, payload |-> entry[k].payload] \in versions
            /\ entry[k].payload.authority # None => entry[entry[k].payload.authority].version > 0
  /\ ~overlap => \A k \in DOMAIN last : entry[k].payload = last[k]
=============================================================================
