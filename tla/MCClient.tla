-------------------------------- MODULE MCClient --------------------------------
(* Every web of three pages, bodies of bounded size. *)
EXTENDS Client

CONSTANTS p1, p2, p3, BodySizes

ThreePages == {p1, p2, p3}

HttpsPages == {p2}

SmallResponses ==
    [kind : {"final"}, framing : {"sized", "until_eof"}, size : BodySizes]
        \cup [kind : {"redirect"}, location : ThreePages]
        \cup [kind : {"no_location", "relative_location"}]

SmallWebs == [ThreePages -> SmallResponses]
================================================================================
