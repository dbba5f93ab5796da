------------------------------- MODULE Screen -------------------------------
(***************************************************************************)
(* The layers of the screen: framebuffer.c, as operators on a display      *)
(*    [layers      |-> the layers from the base upwards,                   *)
(*     cell        |-> what each layer's buffer holds,                     *)
(*     shown       |-> what the video memory holds,                        *)
(*     overprinted |-> history: the console printed over another layer].   *)
(* One cell of the screen is modelled: the functions never relate two,     *)
(* but for scrolling, which writes to the base layer what another cell of  *)
(* it held. Bound: nobody prints '\0', which makes a cell of the base      *)
(* layer transparent.                                                      *)
(***************************************************************************)
EXTENDS Integers, SequencesExt

CONSTANTS Char, Blank

Base == -1          \* base_layer; other layers are known by their file table entry

Empty == "\\0"

Initial == [layers |-> <<Base>>, cell |-> [l \in {Base} |-> Blank],
            shown |-> Blank, overprinted |-> FALSE]

PositionIn(s, l) == CHOOSE i \in 1..Len(s.layers) : s.layers[i] = l

IsOverridden(s, l) ==
    \E i \in (PositionIn(s, l) + 1)..Len(s.layers) : s.cell[s.layers[i]] # Empty

(* The cell that is not transparent in the first n layers and highest. *)
Topmost(s, n) ==
    LET solid == {i \in 1..n : s.cell[s.layers[i]] # Empty}
    IN  s.cell[s.layers[Max(solid)]]

(* framebuffer_write_to_layer. *)
WriteToLayer(s, l, c) ==
    LET uncovered == IF c = Empty THEN Topmost(s, PositionIn(s, l) - 1) ELSE c
    IN  [s EXCEPT !.cell[l] = c,
                  !.shown = IF IsOverridden(s, l) THEN @ ELSE uncovered,
                  !.overprinted = @ /\ IsOverridden(s, l)]

(* framebuffer_put: it does not look at the layers above. *)
Put(s, c) == [s EXCEPT !.cell[Base] = c, !.shown = c,
                       !.overprinted = IsOverridden(s, Base)]

(* framebuffer_create_layer. *)
CreateLayer(s, l) ==
    [s EXCEPT !.layers = Append(@, l),
              !.cell = [k \in DOMAIN @ \cup {l} |-> IF k = l THEN Empty ELSE @[k]]]

Unlink(s, l) ==
    [s EXCEPT !.layers = RemoveFirst(@, l),
              !.cell = [k \in DOMAIN @ \ {l} |-> @[k]]]

(* Fault: what the layer covered is not drawn again. *)
RemoveLayerUndrawn(s, l) == IF Contains(s.layers, l) THEN Unlink(s, l) ELSE s

(* framebuffer_remove_layer. *)
RemoveLayer(s, l) ==
    IF ~Contains(s.layers, l) THEN s
    ELSE IF s.cell[l] = Empty THEN Unlink(s, l)
    ELSE Unlink(WriteToLayer(s, l, Empty), l)
=============================================================================
