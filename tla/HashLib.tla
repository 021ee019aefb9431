------------------------------ MODULE HashLib ------------------------------
(***************************************************************************)
(* The open-addressing hash table of src/fgutil/src/hash/hashlib.c.        *)
(*                                                                         *)
(* A table is a record: what the slots in use hold, the slots that hold    *)
(* DELETED, the size, the two counters and the error flags.  An item is a  *)
(* record with a key.                                                      *)
(***************************************************************************)
EXTENDS Integers, FiniteSets, SequencesExt

CONSTANTS InitSize,  \* INITSZ
          Primes,    \* the sizes ithprime gives, in order
          Shift,     \* sz >> 3: the space left free, and the range of h2
          hash(_), rehash(_)

maketbl(size) == [htbl |-> <<>>, dead |-> {}, currentsz |-> size]
hshinit == maketbl(InitSize) @@ [hentries |-> 0, hdeleted |-> 0, herror |-> {}]

Found(t, h, key) == h \in DOMAIN t.htbl /\ t.htbl[h].key = key
Empty(t, h) == h \notin DOMAIN t.htbl \cup t.dead

First(t, key) == hash(key) % t.currentsz
Step(t, key) == (rehash(key) % (t.currentsz \div 2^Shift)) + 1

Ends(t, h, key) == Found(t, h, key) \/ Empty(t, h)

\* The slot of the key, or the empty slot where the search ends.
RECURSIVE HuntFrom(_, _, _)
HuntFrom(t, key, h) ==
  IF Ends(t, h, key) THEN h ELSE HuntFrom(t, key, (h + Step(t, key)) % t.currentsz)
huntup(t, key) == HuntFrom(t, key, First(t, key))

\* The items with the key: one, or none.
hshfind(t, key) == {t.htbl[h] : h \in {huntup(t, key)} \cap DOMAIN t.htbl}

\* inserted and putintbl.  After an error only the first slot is tried.
putintbl(t, item, copying) ==
  LET h == IF t.herror = {} THEN huntup(t, item.key) ELSE First(t, item.key)
  IN IF ~Empty(t, h) THEN t
     ELSE [t EXCEPT !.htbl = (h :> item) @@ @,
                    !.hentries = IF copying THEN @ ELSE @ + 1]

\* TTHRESH and TSPACE.
Space(t) == t.currentsz - (t.currentsz \div 2^Shift) - t.hentries

\* The size of the new table, 0 if there is none: the same if enough of the
\* old entries are deleted.
NewSize(t) ==
  LET larger == {s \in ToSet(Primes) : s > t.currentsz}
  IN IF t.hdeleted > t.hentries \div 4 THEN t.currentsz
     ELSE IF larger = {} THEN 0 ELSE Min(larger)

\* The items are put into a new table in the order of the old one.
reorganize(t) ==
  LET used == SelectSeq([j \in 1 .. t.currentsz |-> j - 1], LAMBDA j : j \in DOMAIN t.htbl)
      new == FoldLeft(LAMBDA u, j : putintbl(u, t.htbl[j], TRUE), maketbl(NewSize(t)) @@ t, used)
  IN IF Len(used) # t.hentries - t.hdeleted
     THEN [t EXCEPT !.herror = @ \cup {"hshINTERR"}]
     ELSE [new EXCEPT !.hentries = Len(used), !.hdeleted = 0]

hshinsert(t, item) ==
  IF Space(t) > 0 THEN putintbl(t, item, FALSE)
  ELSE LET u == reorganize(t)
       IN IF NewSize(t) = 0 THEN [t EXCEPT !.herror = @ \cup {"hshTBLFULL"}]
          ELSE IF u.herror # t.herror THEN [u EXCEPT !.herror = @ \cup {"hshTBLFULL"}]
          ELSE putintbl(u, item, FALSE)

\* Plausible error: the slot is emptied.
Bug_hshdelete(t, key) ==
  LET h == huntup(t, key)
  IN IF h \notin DOMAIN t.htbl THEN t
     ELSE [t EXCEPT !.htbl = [x \in DOMAIN @ \ {h} |-> @[x]], !.hentries = @ - 1]
hshdelete(t, key) ==
  LET h == huntup(t, key)
  IN IF h \notin DOMAIN t.htbl THEN t
     ELSE [t EXCEPT !.htbl = [x \in DOMAIN @ \ {h} |-> @[x]],
                    !.dead = @ \cup {h},
                    !.hdeleted = @ + 1]
-----------------------------------------------------------------------------
\* The table of a map from keys: every item is found, whatever was deleted or
\* moved before, the counters count the slots, there is an empty slot for
\* every search to end at, and no insertion has failed.
Sound(t) ==
  /\ \A h \in DOMAIN t.htbl : huntup(t, t.htbl[h].key) = h
  /\ DOMAIN t.htbl \cap t.dead = {}
  /\ t.hdeleted = Cardinality(t.dead)
  /\ t.hentries = Cardinality(DOMAIN t.htbl) + t.hdeleted
  /\ t.hentries < t.currentsz
  /\ t.herror = {}
=============================================================================
