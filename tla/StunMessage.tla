----------------------------- MODULE StunMessage -----------------------------
(***************************************************************************)
(* The STUN messages of src/rtcserver/src/ice/stun.cpp, as far as their    *)
(* layout decides whether the other end accepts them: the header's length  *)
(* field, the attributes with their declared lengths and padding, and what *)
(* MESSAGE-INTEGRITY and FINGERPRINT were computed over.  A checksum is    *)
(* modelled by its argument: two checksums are equal when the octets they  *)
(* cover are.  Attribute values that nobody reads are left out.            *)
(***************************************************************************)
EXTENDS Naturals, Sequences

k_stun_header_size == 20

k_stun_attribute_header_size == 4

k_stun_message_integrity_size == 20

(* An attribute: value stands for its octets, length is their number *)
Attribute(t, n, v) == [length |-> n, type |-> t, value |-> v]

NewMessage(t) == [length |-> 0, type |-> t, attrs |-> <<>>]

Padded(n) == IF n % 4 = 0 THEN n ELSE n + 4 - (n % 4)

(* The octets of a sequence of attributes as they are written *)
Octets(attrs) ==
    LET upTo[i \in 0 .. Len(attrs)] ==
            IF i = 0 THEN 0
            ELSE upTo[i - 1] + k_stun_attribute_header_size + Padded(attrs[i].length)
    IN  upTo[Len(attrs)]

(* Mutant: the padding is not counted *)
AddAttribute_NoPadding(m, a) ==
    [m EXCEPT !.length = (@ + a.length + k_stun_attribute_header_size) % 65536,
              !.attrs = Append(@, a)]

(* _length is a uint16_t *)
AddAttribute(m, a) ==
    [m EXCEPT !.length = (@ + Padded(a.length) + k_stun_attribute_header_size) % 65536,
              !.attrs = Append(@, a)]

(* The HMAC covers the attributes before it, under a header whose length   *)
(* already counts it                                                       *)
AddMessageIntegrity(m, pwd) ==
    LET room == AddAttribute(m, Attribute("MESSAGE_INTEGRITY", k_stun_message_integrity_size, <<>>))
    IN  [room EXCEPT !.attrs[Len(room.attrs)].value = <<pwd, m.type, room.length, m.attrs>>]

(* The CRC likewise *)
AddFingerprint(m) ==
    LET room == AddAttribute(m, Attribute("FINGERPRINT", 4, <<>>))
    IN  [room EXCEPT !.attrs[Len(room.attrs)].value = <<m.type, room.length, m.attrs>>]

(* StunMessage::write, the octets on the wire: what the header says and    *)
(* how many there are                                                      *)
Write(m) ==
    [length |-> m.length, type |-> m.type, attrs |-> m.attrs,
     size |-> k_stun_header_size + Octets(m.attrs)]

ValidateFingerprint(w) ==
    /\ w.size % 4 = 0
    /\ w.size >= k_stun_header_size + k_stun_attribute_header_size + 4
    /\ w.attrs # <<>>
    /\ LET n == Len(w.attrs)
       IN  /\ w.attrs[n].type = "FINGERPRINT" /\ w.attrs[n].length = 4
           /\ w.attrs[n].value = <<w.type, w.length, SubSeq(w.attrs, 1, n - 1)>>

(* get_attribute_value_type: the other attributes are skipped *)
Known == {"USERNAME", "MESSAGE_INTEGRITY", "PRIORITY"}

(* StunMessage::read: the length field must be what is left after the      *)
(* header.  A PRIORITY is created with its constant SIZE and read as four  *)
(* octets whatever length it declares; the attributes of this model all    *)
(* declare the length they have.                                           *)
Readable(w) == w.length = w.size - k_stun_header_size

Has(w, t) == \E i \in DOMAIN w.attrs : w.attrs[i].type = t /\ t \in Known

(* _get_attribute: the first of the type *)
Value(w, t) ==
    LET at == {i \in DOMAIN w.attrs : w.attrs[i].type = t}
    IN  w.attrs[CHOOSE i \in at : \A j \in at : i <= j].value

(* get_error_code_value: read keeps no ERROR_CODE attribute *)
STUN_ERROR_GLOBAL_FAIL == 600

ErrorCodeValue(w) ==
    IF Has(w, "ERROR_CODE") THEN Value(w, "ERROR_CODE") ELSE STUN_ERROR_GLOBAL_FAIL

(* validate_message_integrity: the first MESSAGE-INTEGRITY, under a header *)
(* whose length ends with it                                               *)
ValidateMessageIntegrity(w, pwd) ==
    /\ w.size % 4 = 0 /\ w.length + k_stun_header_size = w.size
    /\ Has(w, "MESSAGE_INTEGRITY")
    /\ \E i \in DOMAIN w.attrs :
          /\ w.attrs[i].type = "MESSAGE_INTEGRITY"
          /\ \A j \in 1 .. i - 1 : w.attrs[j].type # "MESSAGE_INTEGRITY"
          /\ LET covered == IF i < Len(w.attrs) THEN Octets(SubSeq(w.attrs, 1, i)) ELSE w.length
             IN  w.attrs[i].value = <<pwd, w.type, covered, SubSeq(w.attrs, 1, i - 1)>>
=============================================================================
