---------------------------- MODULE MCCommandPath ----------------------------
(* CommandPath on a small instance. *)
EXTENDS CommandPath

SafetySpec == Init /\ [][Next]_vars

Core(action) ==
  [action |-> action, namespace |-> "", type |-> "", payload |-> Nothing, parses |-> TRUE]
Extension(namespace, type, payload) ==
  [action |-> "extension", namespace |-> namespace, type |-> type, payload |-> payload,
   parses |-> TRUE]

(* One that is sent, one that is never built (it names no mode). *)
MCCommands == {Extension("husky", "triggerEStop", Nothing), Core("set_mode")}

(* Another action of the extension than the one sent; a core command. *)
MCCapabilitySets ==
  {[commands |-> {"set_mode"}, extensions |-> <<[namespace |-> "husky",
                                                actions |-> {"releaseEStop"}]>>]}
==============================================================================
