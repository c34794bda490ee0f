--------------------------- MODULE ContextServers ---------------------------
(***************************************************************************)
(* Package mcpclient: the subprocesses that serve the customer's own       *)
(* documents, the catalog made of what they advertise, and the reads the   *)
(* model asks for.  The model names a document by an id; what is sent to a *)
(* server is the address that server advertised for it.                    *)
(*                                                                         *)
(* An id is the words of the document's name, with a number added when it  *)
(* is taken: <<"dictionary">>, <<"dictionary", 2>>.  A document whose name *)
(* ends in a number has such an id from the start.                         *)
(***************************************************************************)
EXTENDS Integers, Sequences, FiniteSets

CONSTANTS
    Servers,     \* Options.Servers, in order: each [name, docs, runnable]
    MaxCatalog   \* maxCatalog

\* docs: what the server lists, [id, uri] in order, where id is slug(name).
\* runnable: it has a name and a command.
IsSeq(s) == Len(s) \in Nat /\ s = [k \in 1..Len(s) |-> s[k]]

ASSUME ServersAssumption ==
    /\ MaxCatalog \in Nat \ {0}
    /\ IsSeq(Servers)
    /\ \A i \in DOMAIN Servers :
          /\ Servers[i].runnable \in BOOLEAN
          /\ IsSeq(Servers[i].docs)
          /\ \A n \in DOMAIN Servers[i].docs : IsSeq(Servers[i].docs[n].id)

VARIABLES
    attached,   \* how many of the servers Connect has been through
    sessions,   \* the servers, by index, whose session is open
    catalog,    \* what the brief shows: [id, server, uri], in order
    byID,       \* id |-> [server, uri]: what a read asks, and whom
    conns,      \* what each contributed: [documents, omitted, error]
    requests,   \* what was asked of whom: [server, method, uri]
    reads       \* history: documents handed to the model, [id, server, uri]

serverVars == <<attached, sessions, catalog, byID, conns, requests, reads>>

InitServers ==
    /\ attached = 0
    /\ sessions = {}
    /\ catalog = <<>>
    /\ byID = <<>>
    /\ conns = <<>>
    /\ requests = {}
    /\ reads = {}

\* A plausible bug: a name that is taken is not told apart.
UniqueIDTaken(base, seen) == base

\* uniqueID: the name itself, or with the first number from 2 that is free.
UniqueID(base, seen) ==
    IF base \notin seen THEN base
    ELSE base \o << CHOOSE n \in 2..(Cardinality(seen) + 2) :
                       /\ base \o <<n>> \notin seen
                       /\ \A m \in 2..(n - 1) : base \o <<m>> \in seen >>

\* attach, once the list has come: the server's first documents join the catalog.
\* "seen" is shared by all the servers; list stops at MaxCatalog by itself.
Listed(i) ==
    SubSeq(Servers[i].docs, 1,
           IF Len(Servers[i].docs) < MaxCatalog THEN Len(Servers[i].docs) ELSE MaxCatalog)

Named(i) ==
    LET docs == Listed(i)
        ids[n \in 0..Len(docs)] ==
            IF n = 0 THEN <<>>
            ELSE Append(ids[n - 1],
                        UniqueID(docs[n].id,
                                 DOMAIN byID \union {ids[n - 1][k] : k \in 1..(n - 1)}))
    IN  [n \in DOMAIN docs |-> [id |-> ids[Len(docs)][n], server |-> i, uri |-> docs[n].uri]]

Request(i, method, uri) == [server |-> i, method |-> method, uri |-> uri]

\* The server is not started, or does not answer in time: recorded, and skipped.
ServerDown ==
    /\ attached < Len(Servers)
    /\ attached' = attached + 1
    /\ conns' = Append(conns, [documents |-> 0, omitted |-> 0, error |-> TRUE])
    /\ UNCHANGED <<sessions, catalog, byID, requests, reads>>

\* It answers and its list does not come: the session is kept, to be closed.
ListFails ==
    /\ attached < Len(Servers) /\ Servers[attached + 1].runnable
    /\ attached' = attached + 1
    /\ sessions' = sessions \union {attached + 1}
    /\ requests' = requests \union {Request(attached + 1, "list", "")}
    /\ conns' = Append(conns, [documents |-> 0, omitted |-> 0, error |-> TRUE])
    /\ UNCHANGED <<catalog, byID, reads>>

Attach ==
    LET i == attached + 1
        docs == Named(i)
        ids == {docs[n].id : n \in DOMAIN docs}
    IN  /\ attached < Len(Servers) /\ Servers[i].runnable
        /\ attached' = i
        /\ sessions' = sessions \union {i}
        /\ requests' = requests \union {Request(i, "list", "")}
        /\ catalog' = catalog \o docs
        /\ byID' = [id \in DOMAIN byID \union ids |->
                       IF id \in ids
                       THEN LET d == docs[CHOOSE n \in DOMAIN docs :
                                             docs[n].id = id /\ \A m \in DOMAIN docs :
                                                 docs[m].id = id => m <= n]
                            IN  [server |-> d.server, uri |-> d.uri]
                       ELSE byID[id]]
        /\ conns' = Append(conns, [documents |-> Len(docs), omitted |-> 0, error |-> FALSE])
        /\ UNCHANGED reads

ConnectOne == ServerDown \/ ListFails \/ Attach

Connected == attached = Len(Servers)

\* Read, of an id the model wrote.  An unknown one sends nothing.
ReadUnknown(id) == id \notin DOMAIN byID /\ UNCHANGED serverVars

\* The request is recorded whatever comes back; a document that comes back is text.
Read(id, answered) ==
    /\ id \in DOMAIN byID
    /\ requests' = requests \union {Request(byID[id].server, "read", byID[id].uri)}
    /\ reads' = IF answered
                THEN reads \union {[id |-> id, server |-> byID[id].server, uri |-> byID[id].uri]}
                ELSE reads
    /\ UNCHANGED <<attached, sessions, catalog, byID, conns>>

\* Close ends every session; one that does not end cleanly is ended all the same.
CloseSessions == sessions' = {}

-----------------------------------------------------------------------------
\* What the model is handed under an id is the document the catalog lists under
\* that id, from the server it names; and nothing is asked of a server but its
\* list and the addresses in it.
ReadsGoWhereTheCatalogSays ==
    /\ \A r \in reads :
          /\ \E n \in DOMAIN catalog : catalog[n] = r
          /\ \A n \in DOMAIN catalog : catalog[n].id = r.id => catalog[n] = r
    /\ \A q \in requests :
          q.method = "read" =>
             \E n \in DOMAIN Servers[q.server].docs : Servers[q.server].docs[n].uri = q.uri
=============================================================================
