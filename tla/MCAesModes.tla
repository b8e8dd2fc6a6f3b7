------------------------------ MODULE MCAesModes ------------------------------
(* Sectors of up to three blocks of six bits, in bytes of two; boxes with     *)
(* blocks of six bytes, genuine or changed in one respect.                    *)
EXTENDS AesModes

MCSectorCalls ==
  [kind : {"xts", "cbc"}, sector : {0, 3}, size : {1, 2, 3}, blocks : {1, 2, 3},
   inPlace : BOOLEAN]

(* n places that nothing else holds. *)
Bytes(name, n) == [i \in 1..n |-> {<<name, n, i>>}]

Genuine(nonceLen, textLen, aadLen, tagLen) ==
  LET text == Bytes("text", textLen)
      box == Seal("k", Bytes("nonce", nonceLen), text, Bytes("aad", aadLen), tagLen)
  IN  [kind |-> "ccm", box |-> box, given |-> box, text |-> text]

MCGenuine ==
  { Genuine(nonceLen, textLen, aadLen, tagLen) :
      nonceLen \in {2}, textLen \in {0, 1, 6, 7}, aadLen \in {0, 3}, tagLen \in {4, 6} }
  \union { Genuine(3, textLen, 5, 6) : textLen \in {0, 3, 8} }
  \union { Genuine(1, textLen, 0, 6) : textLen \in {0, 7} }

Changed(s, i) == [s EXCEPT ![i] = Sum(@, {<<"change">>})]

(* One change to a box; some make the lengths invalid. *)
Tampered(box) ==
  { [box EXCEPT !.key = other] : other \in {"other", "wrongSize"} }
  \union { [box EXCEPT !.nonce = Bytes("nonce", n)] : n \in {0, 1, 3, 4} }
  \union { [box EXCEPT !.nonce = Changed(@, i)] : i \in 1..Len(box.nonce) }
  \union { [box EXCEPT !.ciphertext = Changed(@, i)] : i \in 1..Len(box.ciphertext) }
  \union { [box EXCEPT !.ciphertext = SubSeq(@, 1, n)] : n \in 0..(Len(box.ciphertext) - 1) }
  \union { [box EXCEPT !.ciphertext = @ \o [i \in 1..n |-> {}]] : n \in {1, 4, 18, 54} }
  \union { [box EXCEPT !.tag = Changed(@, i)] : i \in 1..Len(box.tag) }
  \union { [box EXCEPT !.tag = SubSeq(@, 1, n)] : n \in {2, 4, 5} \intersect 0..(Len(box.tag) - 1) }
  \union { [box EXCEPT !.aad = Append(@, {})], [box EXCEPT !.aad = <<>>] }

MCCcmCalls ==
  UNION { { [c EXCEPT !.given = given] : given \in {c.box} \union Tampered(c.box) } :
          c \in MCGenuine }
=============================================================================
