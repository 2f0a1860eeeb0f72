------------------------------ MODULE MCPcat2 ------------------------------
(* Pcat2 over up to three files of up to three bytes, any of them missing;     *)
(* every byte is another one, so that no loss and no exchange goes unseen.     *)
EXTENDS Pcat2

File(k)  == {[i \in 1 .. size |-> 10 * k + i] : size \in 0 .. 3} \cup {Missing}
AnyFiles == {<<f>> : f \in File(1)}
              \cup {<<f, g>> : f \in File(1), g \in File(2)}
              \cup {<<f, g, h>> : f \in File(1), g \in File(2), h \in File(3)}
=============================================================================
