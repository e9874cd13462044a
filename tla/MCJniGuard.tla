---------------------------- MODULE MCJniGuard ----------------------------
(* A small instance of JniGuard: one member of each sort.                  *)
EXTENDS JniGuard

MCMembers == 1..5
MCSort == <<"method", "static", "ctor", "field", "staticField">>
MCParams == << <<"object", "primitive">>, <<"object", "array">>, <<"primitive">>, << >>, << >> >>

\* getParameterTypes(), getReturnType() and getType() throw NoClassDefFoundError,
\* hashCode() whatever the app's class throws.
MCMayFail == (Reflectors \X {"CallObjectMethod"}) \cup {<<"print_jobject_safe", "CallIntMethod">>}
=============================================================================
