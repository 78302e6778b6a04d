----------------------------- MODULE MCDecoder ------------------------------
(***************************************************************************)
(* Words for Decoder: every ModRM byte after every prefix that matters,    *)
(* every SIB byte after the ModRM bytes that take one, and every first     *)
(* byte with second bytes that tell recognised instructions apart.         *)
(***************************************************************************)
EXTENDS Decoder

Pad(s) == SubSeq(s \o <<0, 0, 0, 0, 0, 0, 0, 0>>, 1, 8)

Displacements ==
    {<<0, 0, 0, 0>>, <<127, 0, 0, 0>>, <<128, 1, 0, 0>>, <<255, 255, 255, 255>>,
     <<3, 2, 1, 128>>, <<3, 2, 1, 127>>}

Prefixes == {<<>>, <<65>>, <<72>>, <<242>>, <<62>>}

ModRMWords == {Pad(p \o <<255, rm>> \o d) :
                  p \in Prefixes, rm \in 0..255, d \in Displacements}

SibWords == {Pad(p \o <<255, rm, sib>> \o d) :
                p \in {<<>>, <<65>>}, rm \in {20, 84, 148}, sib \in 0..255,
                d \in Displacements}

RelativeWords == {Pad(p \o <<232>> \o d) : p \in Prefixes, d \in Displacements}

OtherWords == {Pad(<<x, y>>) : x \in 0..255, y \in {0, 5, 84, 195, 255}}

MCWords == ModRMWords \union SibWords \union RelativeWords \union OtherWords
=============================================================================
