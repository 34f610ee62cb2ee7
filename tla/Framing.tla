------------------------------- MODULE Framing -------------------------------
(***************************************************************************)
(* A message over TCP: four bytes of length and the text, cut by recv into *)
(* pieces of any size.  get_response of the client and get_request of the  *)
(* server are one algorithm.  A byte is named by its position, so that a   *)
(* text is a sequence of positions; it holds no zero byte.                 *)
(***************************************************************************)
LOCAL INSTANCE Integers
LOCAL INSTANCE SequencesExt

CONSTANTS
    Longest,    \* bound: the longest text
    BufferSize  \* the bytes that one recv may bring

LOCAL Prefix == 4
LOCAL Bytes(p, q) == [i \in 1 .. q - p |-> p + i]

\* The ways to cut n bytes, each as the set of the places where a piece ends.
LOCAL Cuts(n) == {ends \cup {n} : ends \in SUBSET (1 .. n - 1)}

\* The first loop fills the buffer on until it has the length, the second begins the
\* buffer anew with each piece.
Room(next) == IF next < Prefix THEN BufferSize - next ELSE BufferSize
LOCAL Fits(ends) ==
    \A e \in ends :
        LET before == {0} \cup {f \in ends : f < e}
            next == CHOOSE f \in before : \A g \in before : g <= f
        IN e - next <= Room(next)

\* The piece up to place e: in the first loop what follows the length, if anything.
Recv(r, e) ==
    [next |-> e,
     result |-> r.result \o Bytes(IF r.next < Prefix THEN Prefix ELSE r.next, e)]

\* The pieces, in their order.
get_response(ends, n) ==
    FoldLeft(LAMBDA r, e : IF e \in ends THEN Recv(r, e) ELSE r,
             [next |-> 0, result |-> <<>>], Bytes(0, n)).result

\* However a message is cut, the reader hands over its text, whole and in order: a piece
\* that ends inside the length, or with it, or beyond it loses no byte.
ASSUME MessageIsWhole ==
    \A n \in 0 .. Longest : \A ends \in Cuts(Prefix + n) :
        Fits(ends) => get_response(ends, Prefix + n) = Bytes(Prefix, Prefix + n)
=============================================================================
