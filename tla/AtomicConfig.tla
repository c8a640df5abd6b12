------------------------------ MODULE AtomicConfig ------------------------------
(***************************************************************************)
(* What the configuration store promises to a user whose requests do not   *)
(* overlap: the configuration is one document, every request changes it    *)
(* in one step or not at all, and the file is the document as it is now or *)
(* as it was at an earlier write.  There are no arrays, slices, handlers   *)
(* or locks here.                                                          *)
(***************************************************************************)
EXTENDS Naturals, Sequences

CONSTANTS
    Server, Rule,      \* records with a field id
    Settings,
    NoFile,
    Default,
    Backups

VARIABLES
    on,      \* the service runs
    live,    \* the configuration in use
    file     \* the configuration that survives

vars == <<on, live, file>>

IdsOf(list) == {list[i].id : i \in DOMAIN list}

Without(list, k) == [i \in 1 .. Len(list) - 1 |-> list[IF i < k THEN i ELSE i + 1]]

Init == on = FALSE /\ live = Default /\ file \in Backups \cup {NoFile}

\* The first start writes the default document; a later one reads the file.
Start ==
    /\ ~on /\ on' = TRUE
    /\ file' = IF file = NoFile THEN Default ELSE file
    /\ live' = file'

Stop == on /\ on' = FALSE /\ live' = Default /\ UNCHANGED file

\* The document becomes new, and the write of the file succeeds or fails.
Change(new) == on /\ live' = new /\ file' \in {file, new} /\ UNCHANGED on

\* The file catches up with the document.
Write == on /\ file' = live /\ UNCHANGED <<on, live>>

AddServer(srv) ==
    /\ srv.id \notin IdsOf(live.servers)
    /\ Change([live EXCEPT !.servers = Append(@, srv)])

UpdateServer(srv) ==
    \E k \in DOMAIN live.servers :
       /\ live.servers[k].id = srv.id
       /\ Change([live EXCEPT !.servers[k] = srv])

DeleteServer(k) == Change([live EXCEPT !.servers = Without(@, k)])

AddRule(rule) == Change([live EXCEPT !.rules = Append(@, rule)])

UpdateRule(k, rule) ==
    /\ live.rules[k].id = rule.id
    /\ Change([live EXCEPT !.rules[k] = rule])

DeleteRule(k) == Change([live EXCEPT !.rules = Without(@, k)])

Set(value) == Change([live EXCEPT !.setting = value])

Restore(doc) == Change(doc)

Next ==
    \/ Start \/ Stop \/ Write
    \/ \E srv \in Server : AddServer(srv) \/ UpdateServer(srv)
    \/ \E k \in DOMAIN live.servers : DeleteServer(k)
    \/ \E rule \in Rule : AddRule(rule)
    \/ \E k \in DOMAIN live.rules : DeleteRule(k) \/ \E rule \in Rule : UpdateRule(k, rule)
    \/ \E value \in Settings : Set(value)
    \/ \E doc \in Backups : Restore(doc)

Spec == Init /\ [][Next]_vars
=============================================================================
