------------------------------ MODULE RealmTag ------------------------------
(***************************************************************************)
(* The registry of realm tags (runtime/core/realm_tag.c): the 8-bit names  *)
(* by which realms address each other in the shared-memory calls.  Every   *)
(* operation runs under one spinlock, so each is one step.  Nothing calls  *)
(* realm_tag_init: the table, the index and the counter start as zeroed    *)
(* static storage.                                                         *)
(***************************************************************************)
EXTENDS Naturals, Sequences, FiniteSets, Bitwise

CONSTANTS
  Rd,            \* realm descriptors
  MaxRealms,     \* CONFIG_MAX_REALMS
  DefaultTags,   \* k_default_tags
  Pattern,       \* 0xF0
  Width,         \* number of values of a tag: 2^8 in the code
  MaxTries       \* draws the loop of realm_tag_assign accepts: 16

VARIABLES
  tags,         \* g_tags: the entries in use, by slot
  next_index,   \* g_tag_next_index
  counter,      \* g_tag_counter
  assigned      \* whether the last realm_tag_assign returned a tag it owed

vars == <<tags, next_index, counter, assigned>>

Slot == 1..MaxRealms

Tag == 1..(Width - 1)

Free == [rd |-> 0, tag |-> 0]        \* in_use is FALSE; the entry is zeroed

InUse == {i \in Slot : tags[i] # Free}

Init ==
  /\ tags = [i \in Slot |-> Free]
  /\ next_index = 0
  /\ counter = 0
  /\ assigned = TRUE

(***************************************************************************)
(* realm_tag_generate_next: the k-th tag drawn from here on.  The built-in *)
(* list is used up once, then the counter is mixed with a pattern and 0 is *)
(* replaced by 1.                                                          *)
(***************************************************************************)
Generated(k) ==
  LET fromList == Len(DefaultTags) - next_index    \* draws the list still serves
      c        == (counter + (k - fromList) - 1) % Width
      t        == Pattern ^^ c
  IN  IF k <= fromList THEN DefaultTags[next_index + k] ELSE IF t = 0 THEN 1 ELSE t

AdvanceBy(k) ==
  LET fromList == Len(DefaultTags) - next_index
      listed   == IF k < fromList THEN k ELSE fromList
  IN  /\ next_index' = next_index + listed
      /\ counter' = (counter + (k - listed)) % Width

find_slot_by_rd(rd) == {i \in InUse : tags[i].rd = rd}

find_free_slot(i) == i \in Slot \ InUse /\ \A j \in Slot \ InUse : i <= j

\* Mutant of tag_collides: the walk stops one slot early.
tag_collidesOffByOne(t) == \E i \in InUse : i < MaxRealms /\ tags[i].tag = t

tag_collides(t) == \E i \in InUse : tags[i].tag = t

\* Mutant of Acceptable: a single draw.
AcceptableOnce == {k \in 1..1 : ~tag_collides(Generated(k))}

\* The draws whose tag is free, among those the loop accepts.
Acceptable == {k \in 1..MaxTries : ~tag_collides(Generated(k))}

(***************************************************************************)
(* realm_tag_assign: a realm that has a tag, or a full table, is refused.  *)
(* The draw after the last accepted one gives up, with the counters moved. *)
(***************************************************************************)
realm_tag_assign(rd) ==
  IF find_slot_by_rd(rd) # {} \/ InUse = Slot
  THEN UNCHANGED vars
  ELSE IF Acceptable = {}
  THEN /\ AdvanceBy(MaxTries + 1)
       /\ assigned' = FALSE
       /\ UNCHANGED tags
  ELSE \E i \in Slot, k \in Acceptable :
         /\ find_free_slot(i)
         /\ \A j \in Acceptable : k <= j
         /\ AdvanceBy(k)
         /\ tags' = [tags EXCEPT ![i] = [rd |-> rd, tag |-> Generated(k)]]
         /\ assigned' = TRUE

realm_tag_remove(rd) ==
  /\ tags' = [i \in Slot |-> IF i \in find_slot_by_rd(rd) THEN Free ELSE tags[i]]
  /\ UNCHANGED <<next_index, counter, assigned>>

Next == \E rd \in Rd : realm_tag_assign(rd) \/ realm_tag_remove(rd)

Spec == Init /\ [][Next]_vars

-----------------------------------------------------------------------------
TypeOK ==
  /\ tags \in [Slot -> [rd : Rd, tag : Tag] \cup {Free}]
  /\ next_index \in 0..Len(DefaultTags)
  /\ counter \in 0..(Width - 1)
  /\ assigned \in BOOLEAN

(***************************************************************************)
(* A tag names one realm and a realm has one tag, although the list and    *)
(* the fallback pattern overlap and the counter wraps: realm_tag_rd_by_tag *)
(* and realm_tag_get_by_rd are inverse to each other.                      *)
(***************************************************************************)
TagsNameRealms ==
  \A i, j \in InUse : (tags[i].tag = tags[j].tag \/ tags[i].rd = tags[j].rd) => i = j

(***************************************************************************)
(* The bounded loop never turns a realm away while a slot is free (the     *)
(* "unlikely" branch of realm_tag_assign): smc_apt_create ignores the      *)
(* result and would leave the realm nameless.                              *)
(***************************************************************************)
AssignNeverGivesUp == assigned
=============================================================================
