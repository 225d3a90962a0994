SPECIFICATION Spec
INVARIANT DemangleSound
 
 
INVARIANT UnwindSound
INVARIANT OutputReadable
CHECK_DEADLOCK FALSE
