----------------------------- MODULE JwtService ----------------------------
(***************************************************************************)
(* JwtService (core/security): tokens as texts.  A text is a sequence of   *)
(* pieces.  The dot and the blank, which the code searches for, are pieces *)
(* of their own; every other piece stands for characters that are neither. *)
(***************************************************************************)
EXTENDS Naturals, Sequences

Piece(name) == [name |-> name, of |-> <<>>]

Dot == Piece(".")
Blank == Piece(" ")
Header == Piece("header")   \* {"alg":"HS1","typ":"JWT"}
Open == Piece("open")       \* {"exp":...,"iat":...,"sub":"
Close == Piece("close")     \* "}

(***************************************************************************)
(* std::string::find and rfind of a character.  Positions count from 1, so *)
(* 0 is npos, and npos + 1, which wraps to the first position in the code, *)
(* is the first position here.                                             *)
(***************************************************************************)
Places(text, p) == {i \in DOMAIN text : text[i] = p}

Find(text, p) ==
  IF Places(text, p) = {} THEN 0
  ELSE CHOOSE i \in Places(text, p) : \A j \in Places(text, p) : i <= j

RFind(text, p) ==
  IF Places(text, p) = {} THEN 0
  ELSE CHOOSE i \in Places(text, p) : \A j \in Places(text, p) : j <= i

(***************************************************************************)
(* sign: hexadecimal digits that depend on the data and the secret.  Texts *)
(* that differ have different signatures here.                             *)
(***************************************************************************)
sign(data) == [name |-> "sha1", of |-> data]

(* toCompactJson of the payload; a user id keeps its dots and blanks. *)
Payload(userId) == <<Open>> \o userId \o <<Close>>

issueToken(userId) ==
  LET raw == <<Header, Dot>> \o Payload(userId) IN raw \o <<Dot, sign(raw)>>

(* exp is not looked at. *)
validateToken(token) ==
  LET lastDot == RFind(token, Dot) IN
  /\ lastDot # 0
  /\ SubSeq(token, lastDot + 1, Len(token)) = <<sign(SubSeq(token, 1, lastDot - 1))>>

(* json::parse gives an object. *)
IsObject(payload) ==
  /\ Len(payload) >= 2
  /\ Places(payload, Open) = {1}
  /\ Places(payload, Close) = {Len(payload)}

(* Fault: the payload is taken to end at the first dot inside it. *)
extractToNextDot(token) ==
  LET firstDot == Find(token, Dot)
      rest == SubSeq(token, firstDot + 1, Len(token))
      payload == SubSeq(rest, 1, Find(rest, Dot) - 1) IN
  IF firstDot = 0 \/ ~IsObject(payload) THEN <<>>
  ELSE SubSeq(payload, 2, Len(payload) - 1)

extractUserId(token) ==
  LET firstDot == Find(token, Dot)
      lastDot == RFind(token, Dot)
      payload == SubSeq(token, firstDot + 1, lastDot - 1) IN
  IF firstDot = 0 \/ firstDot = lastDot \/ ~IsObject(payload) THEN <<>>
  ELSE SubSeq(payload, 2, Len(payload) - 1)
============================================================================
