------------------------------ MODULE KVSlots ------------------------------
(***************************************************************************)
(* whisper_kv_cache_find_slot (src/whisper.cpp): the search for a run of   *)
(* free cells in the self-attention cache.  The search begins at head, and *)
(* after an occupied cell goes on behind it; near the end of the cache it  *)
(* wraps round, and it gives up when it has tested as many cells as there  *)
(* are, those skipped at the wrap included.                                *)
(***************************************************************************)
EXTENDS Integers, FiniteSetsExt

NoSlot == -1

Slot(h, k) == h .. h + k - 1

(* In a cache of size cells of which those in used are occupied. *)
IsSlot(size, used, h, k) == h + k <= size /\ Slot(h, k) \cap used = {}

(* A plausible slip: the search gives up at the end of the cache. *)
FindSlotNoWrap(size, used, head, k) ==
  LET search[at \in (0 .. size) \X Nat] ==
        LET h == at[1]  n_tested == at[2] IN
        IF h + k > size THEN NoSlot
        ELSE IF IsSlot(size, used, h, k) THEN h
        ELSE LET step == Min(Slot(h, k) \cap used) - h + 1
             IN  IF n_tested + step >= size THEN NoSlot
                 ELSE search[<<h + step, n_tested + step>>]
  IN  IF k > size THEN NoSlot ELSE search[<<head, 0>>]

(* The first cell of the slot for k tokens, or NoSlot. *)
FindSlot(size, used, head, k) ==
  LET search[at \in (0 .. size) \X Nat] ==
        LET h == at[1]  n_tested == at[2] IN
        IF h + k > size THEN search[<<0, n_tested + size - h>>]
        ELSE IF IsSlot(size, used, h, k) THEN h
        ELSE LET step == Min(Slot(h, k) \cap used) - h + 1
             IN  IF n_tested + step >= size THEN NoSlot
                 ELSE search[<<h + step, n_tested + step>>]
  IN  IF k > size THEN NoSlot ELSE search[<<head, 0>>]

(* The search from head for k tokens finds a slot exactly when there is     *)
(* one, and what it finds is free.                                          *)
SearchExact(size, used, head, k) ==
  LET h == FindSlot(size, used, head, k)
  IN  IF h = NoSlot THEN \A x \in 0 .. size - 1 : ~IsSlot(size, used, x, k)
      ELSE h \in 0 .. size /\ IsSlot(size, used, h, k)
=============================================================================
