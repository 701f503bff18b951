-------------------------------- MODULE Heap --------------------------------
(***************************************************************************)
(* The arena (heap.rs): one grow-only buffer that holds every string, byte *)
(* and list payload.  A cell stands for one aligned unit (8 bytes): a      *)
(* string or byte payload takes one cell per character, a list element two.*)
(***************************************************************************)
EXTENDS Value

(* The cells an allocation consumes: an empty payload still takes a unit.   *)
Padded(bytes) == IF bytes = <<>> THEN <<0>> ELSE bytes

(* alloc refuses to grow past the largest representable offset.             *)
CanAlloc(arena, bytes) == Len(arena) + Len(Padded(bytes)) <= Radix - 1
Alloc(arena, bytes) == arena \o Padded(bytes)

NewHandle(arena, bytes) == [off |-> Len(arena), len |-> Len(bytes)]

(* alloc_list writes each element's slot. *)
ListBytes(items) ==
  [i \in 1 .. SlotLen * Len(items) |-> Write(items[(i + 1) \div 2])[2 - (i % 2)]]

(* get: the extent of the handle must lie inside the arena. *)
Within(arena, h) == h.off <= EndOf(h) /\ EndOf(h) <= Len(arena)
Get(arena, h) == SubSeq(arena, h.off + 1, EndOf(h))

(* get_list: the payload is whole slots, each with an assigned tag. *)
Slot(bytes, i) == <<bytes[SlotLen * i - 1], bytes[SlotLen * i]>>
WholeSlots(bytes) == Len(bytes) % SlotLen = 0
AllReadable(bytes) ==
  \A i \in 1 .. Len(bytes) \div SlotLen : Readable(Slot(bytes, i))
Elements(bytes) ==
  [i \in 1 .. Len(bytes) \div SlotLen |-> Read(Slot(bytes, i))]
=============================================================================
