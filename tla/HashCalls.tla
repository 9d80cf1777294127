------------------------------ MODULE HashCalls ------------------------------
(***************************************************************************)
(* What the hash functions of the C interface promise (src/ffi/hash.rs and *)
(* its doc comments): a call looks at the memory as it is when it is made; *)
(* if the arguments are right it writes the digests of the messages to the *)
(* output and nothing else, and if they are not it writes nothing and      *)
(* names something that is wrong.  CHash implements it.                    *)
(***************************************************************************)
EXTENDS CSlices

CONSTANTS
  Blank,           \* the memory between calls
  Digest(_, _),    \* digest of so many bytes of a message
  Len256, Len128   \* bytes of the digests, 32 and 16

VARIABLES
  mem,   \* the bytes the program may use, by address
  req,   \* the call that runs
  ret    \* the status of the call that has returned

vars == <<mem, req, ret>>

-----------------------------------------------------------------------------
(* A call of one of the six functions; a single hash is a batch of one     *)
(* message.  For messages of one length, lens is that length, and data is  *)
(* where they lie; otherwise both are tables.                              *)
Calls == [kind : {"fixed", "var"}, data : Address, n : Address, lens : Address,
          out : Address, size : {Len256, Len128}]

Messages(c) == 0 .. c.n - 1

OutLen(c) == c.n * c.size

(* Message i of a call, where it lies.                                     *)
Place(c, m, i) ==
  IF c.kind = "fixed" THEN [ptr |-> c.data + i * c.lens, len |-> c.lens]
  ELSE [ptr |-> WordAt(m, c.data + i * WordLen), len |-> WordAt(m, c.lens + i * WordLen)]

Digested(c, m, i) ==
  LET p == Place(c, m, i) IN Digest(c.size, Content(m, p.ptr, p.len))

(* The memory after the call.                                              *)
Hashed(c, m) ==
  [a \in DOMAIN m |->
     IF a \in Bytes(c.out, OutLen(c))
       THEN Digested(c, m, (a - c.out) \div c.size)[((a - c.out) % c.size) + 1]
       ELSE m[a]]

-----------------------------------------------------------------------------
(* What can be wrong.                                                      *)

PastEnd(ptr, len) == len > 0 /\ ptr + len > UsizeMax

TooLong(ptr, len) == len > IsizeMax \/ PastEnd(ptr, len)

Meets(c, ptr, len) == Bytes(ptr, len) \cap Bytes(c.out, OutLen(c)) # {}

TableLen(c) == c.n * WordLen

Tables(c) == {c.data, c.lens}

(* The tables can be read.                                                 *)
TablesRight(c) ==
  \A t \in Tables(c) : ~TooLong(t, TableLen(c)) /\ t # Null /\ t % WordLen = 0

Inputs(c, m) ==
  IF c.kind = "fixed" THEN {[ptr |-> c.data, len |-> c.n * c.lens]}
  ELSE IF TablesRight(c) THEN {Place(c, m, i) : i \in Messages(c)}
  ELSE {}

LengthWrong(c, m) ==
  \/ OutLen(c) > IsizeMax
  \/ c.kind = "var" /\ \E t \in Tables(c) : TooLong(t, TableLen(c))
  \/ \E x \in Inputs(c, m) : TooLong(x.ptr, x.len)

PointerWrong(c, m) ==
  \/ c.out = Null
  \/ c.kind = "var" /\ \E t \in Tables(c) :
       t = Null \/ t % WordLen # 0 \/ Meets(c, t, TableLen(c))
  \/ \E x \in Inputs(c, m) : x.len > 0 /\ (x.ptr = Null \/ Meets(c, x.ptr, x.len))

Wrong(c, m) ==
  IF c.n = 0 THEN {}
  ELSE {e \in {"InvalidLength", "InvalidPointer"} :
          IF e = "InvalidLength" THEN LengthWrong(c, m) ELSE PointerWrong(c, m)}

-----------------------------------------------------------------------------
(* What a caller may pass (the Safety sections): memory that is there, or  *)
(* an address or a length that no memory has.                              *)

There(m, ptr, len) ==
  ptr = Null \/ len = 0 \/ TooLong(ptr, len) \/ Bytes(ptr, len) \subseteq DOMAIN m

Callable(c, m) ==
  c.n > 0 =>
    /\ c.out = Null \/ OutLen(c) > IsizeMax \/ Bytes(c.out, OutLen(c)) \subseteq DOMAIN m
    /\ c.kind = "var" => \A t \in Tables(c) : There(m, t, TableLen(c))
    /\ \A x \in Inputs(c, m) : There(m, x.ptr, x.len)

Ask ==
  /\ req = None
  /\ req' \in Calls
  /\ mem' \in [DOMAIN Blank -> 0 .. ByteMod - 1]
  /\ Callable(req', mem')
  /\ UNCHANGED ret

Answer ==
  /\ req # None /\ ret = None
  /\ LET wrong == Wrong(req, mem)
     IN  IF wrong = {} THEN ret' = "Ok" /\ mem' = Hashed(req, mem)
         ELSE ret' \in wrong /\ UNCHANGED mem
  /\ UNCHANGED req

(* The caller looks at the result, and begins anew.                        *)
Collect ==
  /\ ret # None
  /\ mem' = Blank /\ req' = None /\ ret' = None

Init == mem = Blank /\ req = None /\ ret = None

Next == Ask \/ Answer \/ Collect

Spec == Init /\ [][Next]_vars

=============================================================================
