------------------------------- MODULE MCStores ------------------------------
(***************************************************************************)
(* The containers the library is built on, each on its own: queues, tables *)
(* of ids, pages of a file and edge lists.                                 *)
(***************************************************************************)
EXTENDS QueueBuffer, IdTables, PageStore, EdgeLists

CONSTANT Parts   \* those a run is about

VARIABLE part

vars == <<part, q, tableVars, pageVars, edgeVars>>

Init == part \in Parts /\ QueueInit /\ TableInit /\ PageInit /\ EdgeInit /\ (part # "queue" => q = queue_init)

Next ==
  \/ part = "queue" /\ QueueNext /\ UNCHANGED <<part, tableVars, pageVars, edgeVars>>
  \/ part = "tables" /\ TableNext /\ UNCHANGED <<part, q, pageVars, edgeVars>>
  \/ part = "pages" /\ PageNext /\ UNCHANGED <<part, q, tableVars, edgeVars>>
  \/ part = "edges" /\ EdgeNext /\ UNCHANGED <<part, q, tableVars, pageVars>>

Spec == Init /\ [][Next]_vars

\* Containers have the types the C structs give them.
StoresTypeOK ==
  /\ q \in [alloc : BOOLEAN, size : 0 .. Memory, off : 0 .. Memory, count : 0 .. MaxCount, left : 0 .. Memory,
            cells : [0 .. Memory - 1 -> QueueIds \cup {0, Stale}]]
  /\ names.keys \in Seq(Strings \cup {0}) /\ DOMAIN names.hash = 0 .. names.mask /\ DOMAIN rels.hash = 0 .. rels.mask
  /\ buffer.at \in [FilePages -> Slots(buffer) \cup {-1}] /\ buffer.in \in [Slots(buffer) -> FilePages \cup {-1}]
  /\ od.edges \in [Tes -> DOMAIN od.edgedata] /\ asked \subseteq Tes \X Tes \X Bits

FindsIn(t) == \A id \in DOMAIN t.keys : Found(t, t.keys[id]) = id
Finds(t, block) == FindsIn(Ready(t, block))

\* A lookup finds the id a string or relation has, and there is only one, also
\* after files have brought some and hash tables were dropped or have grown.
InternedFound == Finds(names, STRING_BLOCK) /\ Finds(rels, REL_BLOCK)

\* Arrays that are indexed by ids have room for all there are.
RoomForIds ==
  /\ Count(names) <= names.room /\ Count(rels) <= rels.room
  /\ (providers # 0 => Count(names) <= providers) /\ (relproviders # 0 => Count(rels) <= relproviders)

\* Ids can be found and used.
TablesSound == StoresTypeOK /\ InternedFound /\ RoomForIds

\* The lists of a cloned transaction are the same, "edges now points into
\* invedgedata" (transaction.c:1749) there, too.
CloneWaits ==
  clone # Nothing =>
    \A k \in Tes : clone.edges[k] \in DOMAIN clone.invedgedata
                   /\ ListAt(clone.invedgedata, clone.edges[k]) = ListAt(inverted.invedgedata, inverted.edges[k])
=============================================================================
