------------------------------ MODULE JniGuard ------------------------------
(***************************************************************************)
(* JniTrace.cpp on one thread: what the tracer does to the JNI environment *)
(* of the app.  To print a call the handlers make JNI calls of their own, *)
(* on the app's JNIEnv, between the app's call instruction and the call    *)
(* (entry) and after it (return).  ART aborts when most functions are      *)
(* entered with an exception pending, and local references are the app's.  *)
(*                                                                         *)
(* A helper is a sequence of statements, with at most one loop: a statement *)
(* runs if the handles it needs are not null, and a call that fails leaves *)
(* an exception and no handle.  `scopes` are the activations of the helpers *)
(* that run, innermost first, the handler last.                            *)
(***************************************************************************)
EXTENDS Integers, SequencesExt

CONSTANTS
  Members,       \* method, constructor and field ids of the app
  Sort,          \* Sort[m]: see Sorts
  Params,        \* Params[m]: what each parameter of m is, see Kinds
  MayFail,       \* the <<helper, JNI function>> pairs that throw without being out of
                 \* memory: they run Java code or resolve classes
  MaxRefs,       \* bound: local references of the app in a frame
  MaxFrames      \* bound: local frames of the app

Sorts == {"method", "static", "ctor", "field", "staticField"}
Fields == {"field", "staticField"}
Statics == {"static", "staticField"}
Kinds == {"primitive", "object", "array"}

ASSUME JniGuardAssumption ==
  /\ Sort \in [Members -> Sorts]
  /\ \A m \in Members : Params[m] \in Seq(Kinds)
  /\ {MaxRefs, MaxFrames} \subseteq Nat

VARIABLES
  exc,        \* the pending exception: "none", "app" (the app's), "trace"
  frames,     \* number of local references in each local frame
  scopes,     \* activations of the helpers: program, next statement, locals
  cache,      \* g_method_cache, g_field_cache: the pieces of the cached signature
  oom,        \* memory is short: every JNI function of the tracer may throw
  art,        \* PrettyMethod and PrettyField have been found in libart
  phase,      \* "entry" (before the real JNI function), "return" (after it)
  call        \* the JNI call of the app

jniVars == <<exc, frames>>
appVars == <<oom, art, phase, call>>
vars == <<jniVars, scopes, cache, appVars>>

\* JNI functions that may be called with an exception pending.
SafeFns == {"ExceptionOccurred", "ExceptionClear", "ExceptionCheck",
            "DeleteLocalRef", "ReleaseStringUTFChars", "PushLocalFrame", "PopLocalFrame"}

\* JNI functions whose result is a new local reference.
RefFns == {"FindClass", "GetObjectClass", "CallObjectMethod", "ToReflected",
           "GetObjectArrayElement"}

\* The pieces of a signature: parameters and return type, or a field's type.
Pieces(m) == IF Sort[m] \in Fields THEN 1 ELSE Len(Params[m]) + 1

\* A member that is not in the caches: what is cached may have no piece at all.
NotCached == 0 - 1

-----------------------------------------------------------------------------
(* Statements.  If `needs` are all non-null and `unless` all null, fn is    *)
(* called and its result assigned to `gives`.                              *)

Stmt(fn, needs, unless, gives) ==
  [fn |-> fn, needs |-> needs, unless |-> unless, gives |-> gives]
Do(fn, needs, gives) == Stmt(fn, needs, {}, gives)
Drop(ref) == Stmt("DeleteLocalRef", {ref}, {}, ref)
Run(helper, needs, unless) == Stmt(helper, needs, unless, "text")

\* The constructor and the destructor of a JniExceptionGuard.
Enter == Do("guard", {}, "void")
Leave == Do("unguard", {}, "void")

getJClassName ==
  << Enter, Do("FindClass", {}, "classClass"),
     Do("GetMethodID", {"classClass"}, "mid"),
     Do("CallObjectMethod", {"mid"}, "nameStr"),
     Do("GetStringUTFChars", {"nameStr"}, "utf"),
     Do("ReleaseStringUTFChars", {"utf"}, "void"),
     Drop("nameStr"), Drop("classClass"), Leave >>

print_jstring ==
  << Enter, Do("GetStringUTFChars", {}, "utf"),
     Do("ReleaseStringUTFChars", {"utf"}, "void"), Leave >>

print_jobject_safe ==
  << Enter, Do("GetObjectClass", {}, "cls"),
     Run("getJClassName", {"cls"}, {}),
     Do("GetMethodID", {"cls"}, "mid_hash"),
     Do("CallIntMethod", {"mid_hash"}, "hash"),
     Drop("cls"), Leave >>

print_jobject_or_string ==
  << Enter, Do("FindClass", {}, "strCls"),
     Do("IsInstanceOf", {"strCls"}, "isStr"), Drop("strCls"),
     Run("print_jstring", {"isStr"}, {}),
     Run("print_jobject_safe", {}, {"isStr"}), Leave >>

\* Arguments that are objects are looked at one after the other, in one guard.
print_va_args_from_sig ==
  << Enter, Do("for", {}, "elem"),
     Do("IsArray", {"elem"}, "arr"), Run("print_jobject_safe", {"arr"}, {}),
     Do("IsObject", {"elem"}, "obj"),
     Do("FindClass", {"obj"}, "strCls"),
     Do("IsInstanceOf", {"strCls"}, "isStr"), Drop("strCls"),
     Run("print_jstring", {"isStr"}, {}),
     Run("print_jobject_safe", {"obj"}, {"isStr"}),
     Do("next", {"elem"}, "void"), Leave >>

\* The name of a class object becomes a piece of the signature.
ClassPiece(ref, mid, name, utf) ==
  << Do("CallObjectMethod", {ref, mid}, name),
     Do("GetStringUTFChars", {name}, utf), Do("ReleaseStringUTFChars", {utf}, "void"),
     Do("piece", {utf}, "sig") >>

\* The loop over getParameterTypes().
ParamLoop ==
  << Do("for", {"count"}, "elem"),
     Do("GetObjectArrayElement", {"elem"}, "paramCls") >>
  \o ClassPiece("paramCls", "mid_clsGetName", "pName", "pUtf")
  \o << Do("next", {"elem"}, "void") >>

\* A Method or a Constructor: its name ...
MethodName ==
  << Do("ToReflected", {"frame"}, "reflected"),
     Do("FindClass", {"reflected"}, "clsMethod"),
     Do("FindClass", {"reflected"}, "clsCtor"),
     Do("IsMethod", {"clsMethod"}, "isMethod"),
     Do("GetMethodID", {"isMethod"}, "mid_getName"),
     Do("CallObjectMethod", {"mid_getName"}, "name_ref"),
     Do("GetStringUTFChars", {"name_ref"}, "name"),
     Do("ReleaseStringUTFChars", {"name"}, "void"),
     Do("GetMethodID", {"isMethod"}, "mid_getParams"),
     Do("GetMethodID", {"isMethod"}, "mid_getReturn"),
     Stmt("IsCtor", {"clsCtor"}, {"isMethod"}, "isCtor"),
     Do("set", {"isCtor"}, "name"),
     Do("GetMethodID", {"isCtor"}, "mid_getParams"),
     Do("set", {"isMethod"}, "known"), Do("set", {"isCtor"}, "known") >>

\* ... and its signature, from Class.getName of the parameter types and of the
\* return type, which for a constructor is V.
Signature ==
  << Do("FindClass", {"known"}, "clsClass"),
     Do("GetMethodID", {"clsClass"}, "mid_clsGetName"),
     Do("CallObjectMethod", {"mid_getParams", "mid_clsGetName"}, "params"),
     Do("GetArrayLength", {"params"}, "count") >>
  \o ParamLoop
  \o << Do("CallObjectMethod", {"mid_getReturn", "mid_clsGetName"}, "retCls") >>
  \o ClassPiece("retCls", "mid_clsGetName", "rName", "rUtf")
  \o << Do("piece", {"isCtor"}, "sig"), Do("set", {"known"}, "info") >>

FieldNameType ==
  << Do("ToReflected", {"frame"}, "reflected"),
     Do("FindClass", {"reflected"}, "clsField"),
     Do("GetMethodID", {"clsField"}, "mid_getName"),
     Do("CallObjectMethod", {"mid_getName"}, "name_ref"),
     Do("GetStringUTFChars", {"name_ref"}, "name"),
     Do("ReleaseStringUTFChars", {"name"}, "void"),
     Do("GetMethodID", {"clsField"}, "mid_getType"),
     Do("CallObjectMethod", {"mid_getType"}, "typeCls"),
     Do("FindClass", {"typeCls"}, "clsClass"),
     Do("GetMethodID", {"clsClass"}, "mid_clsGetName") >>
  \o ClassPiece("typeCls", "mid_clsGetName", "tName", "tUtf")

\* A body in a JniLocalFrame under a guard; without the frame it returns at once.
InFrame(body) ==
  << Enter, Do("PushLocalFrame", {}, "frame") >>
  \o body \o << Do("PopLocalFrame", {"frame"}, "void"), Leave >>

resolveMethodByReflection ==
  InFrame(MethodName \o Signature
          \o << Run("getJClassName", {"known"}, {}), Do("cache", {"name"}, "void") >>)

resolveFieldByReflection ==
  InFrame(FieldNameType
          \o << Run("getJClassName", {"clsField"}, {}), Do("cache", {"name"}, "void") >>)

\* getMethodInfoResolved, getFieldInfoResolved: the cache, ART, reflection. The
\* class is that of the object; a static call has it at hand.
InfoResolved(m) ==
  LET resolver == IF Sort[m] \in Fields THEN "resolveFieldByReflection"
                                        ELSE "resolveMethodByReflection" IN
  IF cache[m] # NotCached THEN << Do("set", {}, "info") >>
  ELSE IF art THEN << Do("cacheAll", {}, "info") >>
  ELSE IF Sort[m] \in Statics THEN << Enter, Run(resolver, {}, {}), Leave >>
  ELSE << Enter, Do("GetObjectClass", {}, "clazz"), Run(resolver, {"clazz"}, {}),
          Drop("clazz"), Leave >>

\* The programs of the helpers that others run.
Program(helper, m) ==
  CASE helper = "getJClassName"             -> getJClassName
    [] helper = "print_jstring"             -> print_jstring
    [] helper = "print_jobject_safe"        -> print_jobject_safe
    [] helper = "print_jobject_or_string"   -> print_jobject_or_string
    [] helper = "print_va_args_from_sig"    -> print_va_args_from_sig
    [] helper = "InfoResolved"              -> InfoResolved(m)
    [] helper = "resolveMethodByReflection" -> resolveMethodByReflection
    [] helper = "resolveFieldByReflection"  -> resolveFieldByReflection

Helpers == {"getJClassName", "print_jstring", "print_jobject_safe",
            "print_jobject_or_string", "print_va_args_from_sig", "InfoResolved",
            "resolveMethodByReflection", "resolveFieldByReflection"}

-----------------------------------------------------------------------------
(* The handlers: what each runs at the call of the app, and at its return.  *)
(* Arguments are not null: for null the helpers return at once.  A result  *)
(* that is no object is printed as it is, without JNI, like null: a name   *)
(* stands for the functions of its family whatever they return.            *)

Handler(entry, ret) == [entry |-> entry, ret |-> ret]
Class == Run("getJClassName", {}, {})
Object == Run("print_jobject_safe", {}, {})
Text == Run("print_jstring", {}, {})
Value == Run("print_jobject_or_string", {}, {})
Info == Run("InfoResolved", {}, {})
Args == Run("print_va_args_from_sig", {"info"}, {})
Result(helper) == << Run(helper, {"ret"}, {}) >>

ClassHandlers == [
  FindClass        |-> Handler(<< >>, << >>),
  GetSuperclass    |-> Handler(<<Class>>, Result("getJClassName")),
  GetObjectClass   |-> Handler(<<Object>>, Result("getJClassName")),
  IsAssignableFrom |-> Handler(<<Class, Class>>, << >>),
  IsInstanceOf     |-> Handler(<<Object, Class>>, << >>),
  IsSameObject     |-> Handler(<<Object, Object>>, << >>) ]

\* Those of global and weak references are alike.
RefHandlers == [
  NewLocalRef      |-> Handler(<<Object>>, << >>),
  DeleteLocalRef   |-> Handler(<<Object>>, << >>) ]

\* The id, if there is one, is cached with its class, name and signature.
IdHandlers == [
  GetMethodID      |-> Handler(<<Class>>, << Do("cacheAll", {"ret"}, "void") >>),
  GetFieldID       |-> Handler(<<Class>>, << Do("cacheAll", {"ret"}, "void") >>),
  RegisterNatives  |-> Handler(<<Class>>, << >>) ]

StringHandlers == [
  NewString        |-> Handler(<< >>, Result("print_jstring")),
  GetStringUTFChars     |-> Handler(<<Text>>, << >>),
  ReleaseStringUTFChars |-> Handler(<<Text>>, << >>) ]

ObjectHandlers == [
  NewObjectV       |-> Handler(<<Class, Info>>, Result("print_jobject_or_string")),
  AllocObject      |-> Handler(<<Class>>, Result("print_jobject_safe")) ]

CallMethodV == Handler(<<Info, Object, Args>>, Result("print_jobject_or_string"))
CallStaticMethodV == Handler(<<Class, Info, Args>>, Result("print_jobject_or_string"))
CallNonvirtualMethodV ==
  Handler(<<Class, Info, Object, Args>>, Result("print_jobject_or_string"))

GetField == Handler(<<Info, Object>>, Result("print_jobject_or_string"))
SetField == Handler(<<Info, Object, Value>>, << >>)
GetStaticField == Handler(<<Class, Info>>, Result("print_jobject_or_string"))
SetStaticField == Handler(<<Class, Info, Value>>, << >>)

ArrayHandlers == [
  GetArrayLength        |-> Handler(<<Object>>, << >>),
  NewObjectArray        |-> Handler(<<Class, Value>>, Result("print_jobject_safe")),
  GetObjectArrayElement |-> Handler(<<Object>>, Result("print_jobject_or_string")),
  SetObjectArrayElement |-> Handler(<<Object, Value>>, << >>) ]

\* The macros for the primitive types: elements and regions print the array.
PrimitiveArrayHandlers == [
  NewIntArray             |-> Handler(<< >>, << >>),
  GetIntArrayRegion       |-> Handler(<<Object>>, << >>),
  ReleaseIntArrayElements |-> Handler(<<Object>>, << >>) ]

CriticalHandlers == [
  GetStringCritical             |-> Handler(<<Text>>, << >>),
  ReleasePrimitiveArrayCritical |-> Handler(<<Object>>, << >>) ]

ExceptionHandlers == [
  ExceptionClear    |-> Handler(<< >>, << >>),
  ExceptionOccurred |-> Handler(<< >>, Result("print_jobject_safe")),
  Throw             |-> Handler(<<Object>>, << >>),
  ThrowNew          |-> Handler(<<Class>>, << >>) ]

ReflectionHandlers == [
  ToReflected       |-> Handler(<<Class, Info>>, << >>),
  FromReflected     |-> Handler(<<Object>>, << >>) ]

MonitorHandlers == [ MonitorExit |-> Handler(<<Object>>, << >>) ]

FrameHandlers == [
  PushLocalFrame |-> Handler(<< >>, << >>),
  PopLocalFrame  |-> Handler(<<Value>>, Result("print_jobject_or_string")) ]

BufferHandlers == [
  NewDirectByteBuffer    |-> Handler(<< >>, Result("print_jobject_safe")),
  GetDirectBufferAddress |-> Handler(<<Object>>, << >>) ]

CallHandlers == [
  CallObjectMethodV           |-> CallMethodV,
  CallStaticObjectMethodV     |-> CallStaticMethodV,
  CallNonvirtualObjectMethodV |-> CallNonvirtualMethodV ]

FieldHandlers == [
  GetObjectField       |-> GetField,
  SetObjectField       |-> SetField,
  GetStaticObjectField |-> GetStaticField,
  SetStaticObjectField |-> SetStaticField ]

Tables ==
  {ClassHandlers, RefHandlers, IdHandlers, StringHandlers, ObjectHandlers, CallHandlers,
   FieldHandlers, ArrayHandlers, PrimitiveArrayHandlers, CriticalHandlers, ExceptionHandlers,
   ReflectionHandlers, MonitorHandlers, FrameHandlers, BufferHandlers}

\* tableInit(): the handler of each JNI function.
tableInit ==
  [kind \in UNION {DOMAIN t : t \in Tables} |-> (CHOOSE t \in Tables : kind \in DOMAIN t)[kind]]

-----------------------------------------------------------------------------
(* Running a statement.                                                    *)

\* An activation: `at` is the next statement of prog, `i` the parameters the
\* loop has seen, `saved` the exception of the guard, `sig` the pieces found,
\* `before` (history) the exception and the references when it was entered.
Activation(helper, prog, have, env) ==
  [helper |-> helper, prog |-> prog, at |-> 1, i |-> 0, have |-> have,
   saved |-> "none", sig |-> 0, before |-> env]

Scope == Head(scopes)
Done == Scope.at > Len(Scope.prog)
Statement == Scope.prog[Scope.at]

Applies(s) == s.needs \subseteq Scope.have /\ s.unless \cap Scope.have = {}

IsCall(fn) == fn \in SafeFns \cup RefFns \cup
  {"GetMethodID", "GetStringUTFChars", "CallIntMethod", "GetArrayLength",
   "IsInstanceOf", "IsMethod", "IsCtor"}

Top(change) == [frames EXCEPT ![Len(frames)] = @ + change]

\* The statement is done, and the locals are now those of `scope`.
Proceed(scope) == scopes' = [scopes EXCEPT ![1] = [scope EXCEPT !.at = @ + 1]]
Advance(have) == Proceed([Scope EXCEPT !.have = have])
Assign(s) == Advance(Scope.have \cup {s.gives})

Fails(fn) == oom \/ <<Scope.helper, fn>> \in MayFail

Skip ==
  /\ ~Applies(Statement)
  /\ Advance(Scope.have)
  /\ UNCHANGED <<jniVars, cache>>

\* A JNI function that makes or finds something, or throws.
Call(s) ==
  /\ s.fn \in RefFns \cup {"GetMethodID", "GetStringUTFChars", "CallIntMethod", "GetArrayLength"}
  /\ \/ /\ Assign(s)
        /\ frames' = Top(IF s.fn \in RefFns THEN 1 ELSE 0)
        /\ exc' = exc
     \/ /\ Fails(s.fn)
        /\ Advance(Scope.have)
        /\ frames' = frames /\ exc' = "trace"
  /\ cache' = cache

\* Questions: the object is a string or not, a Method or a Constructor; the
\* parameter is an object or an array.
Says(s, yes) == IF yes THEN Assign(s) ELSE Advance(Scope.have)
Test(s) ==
  /\ \/ s.fn = "IsInstanceOf" /\ (Assign(s) \/ Advance(Scope.have))
     \/ s.fn = "IsMethod" /\ Says(s, Sort[call.m] \in {"method", "static"})
     \/ s.fn = "IsCtor" /\ Says(s, Sort[call.m] = "ctor")
     \/ s.fn = "IsObject" /\ Says(s, Params[call.m][Scope.i] = "object")
     \/ s.fn = "IsArray" /\ Says(s, Params[call.m][Scope.i] = "array")
  /\ UNCHANGED <<jniVars, cache>>

Release(s) ==
  /\ \/ s.fn = "DeleteLocalRef" /\ frames' = Top(0 - 1) /\ Advance(Scope.have \ {s.gives})
     \/ s.fn = "ReleaseStringUTFChars" /\ frames' = frames /\ Advance(Scope.have)
  /\ UNCHANGED <<exc, cache>>

\* JniLocalFrame
LocalFrame(s) ==
  /\ \/ s.fn = "PushLocalFrame" /\ frames' = Append(frames, 0) /\ exc' = exc /\ Assign(s)
     \/ /\ s.fn = "PushLocalFrame" /\ Fails(s.fn)
        /\ Advance(Scope.have) /\ frames' = frames /\ exc' = "trace"
     \/ s.fn = "PopLocalFrame" /\ frames' = Front(frames) /\ exc' = exc /\ Advance(Scope.have)
  /\ cache' = cache

\* Mutant of Guard: the exception is saved but not cleared.
GuardKeep(s) ==
  /\ s.fn = "guard"
  /\ Proceed([Scope EXCEPT !.saved = exc])
  /\ frames' = Top(IF exc # "none" THEN 1 ELSE 0)
  /\ UNCHANGED <<exc, cache>>

\* The constructor of JniExceptionGuard: the pending exception is taken away
\* and held by a local reference.
Guard(s) ==
  /\ s.fn = "guard"
  /\ Proceed([Scope EXCEPT !.saved = exc])
  /\ exc' = "none"
  /\ frames' = Top(IF exc # "none" THEN 1 ELSE 0)
  /\ cache' = cache

\* Mutant of Unguard: the exception is cleared only when there is one to restore.
UnguardKeep(s) ==
  /\ s.fn = "unguard"
  /\ exc' = IF Scope.saved # "none" THEN Scope.saved ELSE exc
  /\ frames' = Top(IF Scope.saved # "none" THEN 0 - 1 ELSE 0)
  /\ Advance(Scope.have)
  /\ cache' = cache

\* The destructor: what the helper's own calls threw is dropped, the saved
\* exception is thrown again.
Unguard(s) ==
  /\ s.fn = "unguard"
  /\ exc' = Scope.saved
  /\ frames' = Top(IF Scope.saved # "none" THEN 0 - 1 ELSE 0)
  /\ Advance(Scope.have)
  /\ cache' = cache

\* A helper is called; the caller goes on with its next statement afterwards.
CallHelper(s) ==
  /\ s.fn \in Helpers
  /\ scopes' = << Activation(s.fn, Program(s.fn, call.m), {}, <<exc, frames>>),
                  [Scope EXCEPT !.at = @ + 1] >> \o Tail(scopes)
  /\ UNCHANGED <<jniVars, cache>>

\* A helper returns: the caller has the information (mi, fi) it found.
Ret ==
  /\ scopes' = [Tail(scopes) EXCEPT ![1].have = @ \cup (Scope.have \cap {"info"})]
  /\ UNCHANGED <<jniVars, cache>>

\* Variables of the body of a loop.
LoopLocals == {"elem", "arr", "obj", "isStr", "paramCls", "pName", "pUtf"}

\* Mutant of For: the last parameter is not visited.
ForShort(s) ==
  IF Scope.i + 1 < Len(Params[call.m])
  THEN Proceed([Scope EXCEPT !.i = @ + 1, !.have = (@ \ LoopLocals) \cup {s.gives}])
  ELSE Advance(Scope.have \ LoopLocals)

\* The head of a loop over the parameters: there is one more, or the statements
\* of the body, which need it, are passed over.
For(s) ==
  IF Scope.i < Len(Params[call.m])
  THEN Proceed([Scope EXCEPT !.i = @ + 1, !.have = (@ \ LoopLocals) \cup {s.gives}])
  ELSE Advance(Scope.have \ LoopLocals)

LoopHead == CHOOSE k \in 1..Len(Scope.prog) : Scope.prog[k].fn = "for"

Loop(s) ==
  /\ \/ s.fn = "for" /\ For(s)
     \/ s.fn = "next" /\ scopes' = [scopes EXCEPT ![1] = [Scope EXCEPT !.at = LoopHead]]
  /\ UNCHANGED <<jniVars, cache>>

\* Local variables, and the caches of methods and fields.
Local(s) ==
  /\ \/ s.fn = "set" /\ Assign(s) /\ cache' = cache
     \/ s.fn = "piece" /\ Proceed([Scope EXCEPT !.sig = @ + 1]) /\ cache' = cache
     \/ /\ s.fn = "cache" /\ Advance(Scope.have)
        /\ cache' = [cache EXCEPT ![call.m] = Scope.sig]
     \/ /\ s.fn = "cacheAll" /\ Assign(s)
        /\ cache' = [cache EXCEPT ![call.m] = Pieces(call.m)]
  /\ UNCHANGED jniVars

Step ==
  /\ \/ /\ ~Done
        /\ \/ Skip
           \/ LET s == Statement IN
              /\ Applies(s)
              /\ \/ Call(s) \/ Test(s) \/ Release(s) \/ LocalFrame(s) \/ Guard(s)
                 \/ Unguard(s) \/ CallHelper(s) \/ Loop(s) \/ Local(s)
     \/ Done /\ Len(scopes) > 1 /\ Ret
  /\ UNCHANGED appVars

\* The handler has returned.
HandlerDone == Done /\ Len(scopes) = 1

-----------------------------------------------------------------------------
(* The app, and what the JNI functions do to exceptions and references.    *)

\* Functions the app may call with an exception pending, those that make a
\* reference or return null, those that throw nothing.
AppSafe == {"DeleteLocalRef", "ReleaseStringUTFChars", "ReleaseIntArrayElements",
            "ReleasePrimitiveArrayCritical", "ExceptionClear", "ExceptionOccurred", "MonitorExit",
            "PushLocalFrame", "PopLocalFrame"}
Makers == {"FindClass", "GetSuperclass", "GetObjectClass", "NewLocalRef", "NewString",
           "NewObjectV", "AllocObject", "CallObjectMethodV", "CallStaticObjectMethodV",
           "CallNonvirtualObjectMethodV", "GetObjectField", "GetStaticObjectField",
           "NewObjectArray", "NewIntArray", "GetObjectArrayElement", "ToReflected",
           "NewDirectByteBuffer"}
Quiet == {"GetSuperclass", "GetObjectClass", "IsAssignableFrom", "IsInstanceOf",
          "IsSameObject", "NewLocalRef", "GetObjectField", "GetStaticObjectField",
          "SetObjectField", "SetStaticObjectField", "GetArrayLength", "FromReflected",
          "GetDirectBufferAddress"} \cup AppSafe
IdFns == {"GetMethodID", "GetFieldID"}

\* The sorts of the ids that a function takes, or finds.
SortsOf(kind) ==
  CASE kind = "GetMethodID" -> Sorts \ Fields
    [] kind = "GetFieldID"  -> Fields
    [] kind \in {"CallObjectMethodV", "CallNonvirtualObjectMethodV"} -> {"method"}
    [] kind = "CallStaticObjectMethodV" -> {"static"}
    [] kind = "NewObjectV"  -> {"ctor"}
    [] kind \in {"GetObjectField", "SetObjectField"} -> {"field"}
    [] kind \in {"GetStaticObjectField", "SetStaticObjectField"} -> {"staticField"}
    [] kind = "ToReflected" -> Sorts
    [] OTHER -> {}

Fits(kind) == SortsOf(kind) = {} \/ Sort[call.m] \in SortsOf(kind)

\* jni_on_call: the app is about to make a call it is allowed to make. In one
\* behaviour it uses one id, as ids have nothing in common but the caches' locks.
jni_on_call(kind) ==
  /\ phase = "return" /\ HandlerDone /\ Fits(kind)
  /\ exc # "none" => kind \in AppSafe
  /\ kind = "DeleteLocalRef" => Last(frames) > 0
  /\ kind = "ExceptionOccurred" => Last(frames) < MaxRefs
  /\ kind = "PushLocalFrame" => Len(frames) < MaxFrames
  /\ kind = "PopLocalFrame" => Len(frames) > 1
  /\ phase' = "entry" /\ call' = [call EXCEPT !.kind = kind]
  /\ scopes' = << Activation("handler", tableInit[kind].entry, {}, <<exc, frames>>) >>
  /\ UNCHANGED <<jniVars, cache, oom, art>>

\* The real function has run; jni_on_return runs the second half of the handler.
jni_on_return(have) ==
  /\ phase' = "return"
  /\ scopes' = << Activation("handler", tableInit[call.kind].ret, have, <<exc', frames'>>) >>
  /\ UNCHANGED <<cache, oom, art, call>>

\* It returns an object, or null or something else, or throws.
Returns ==
  /\ exc' = exc
  /\ \/ /\ call.kind \in Makers \/ (call.kind = "ExceptionOccurred" /\ exc # "none")
        /\ Last(frames) < MaxRefs
        /\ frames' = Top(1) /\ jni_on_return({"ret"})
     \/ call.kind \in IdFns /\ frames' = frames /\ jni_on_return({"ret"})
     \/ /\ call.kind \notin IdFns \cup {"DeleteLocalRef", "ExceptionClear", "Throw", "ThrowNew",
                                      "PushLocalFrame", "PopLocalFrame"}
        /\ call.kind = "ExceptionOccurred" => exc = "none"
        /\ frames' = frames /\ jni_on_return({})
Throws ==
  /\ call.kind \notin Quiet
  /\ exc' = "app" /\ frames' = frames /\ jni_on_return({})
ManagesRefs ==
  /\ exc' = exc
  /\ \/ call.kind = "DeleteLocalRef" /\ frames' = Top(0 - 1) /\ jni_on_return({})
     \/ call.kind = "PushLocalFrame" /\ frames' = Append(frames, 0) /\ jni_on_return({})
     \/ /\ call.kind = "PopLocalFrame" /\ frames[Len(frames) - 1] < MaxRefs
        /\ frames' = [Front(frames) EXCEPT ![Len(frames) - 1] = @ + 1]
        /\ jni_on_return({"ret"})
     \/ call.kind = "PopLocalFrame" /\ frames' = Front(frames) /\ jni_on_return({})
Clears ==
  /\ call.kind = "ExceptionClear"
  /\ exc' = "none" /\ frames' = frames /\ jni_on_return({})

HostCall ==
  /\ phase = "entry" /\ HandlerDone
  /\ Returns \/ Throws \/ ManagesRefs \/ Clears

Init ==
  /\ exc = "none" /\ frames = <<0>>
  /\ scopes = << Activation("handler", << >>, {}, <<exc, frames>>) >>
  /\ cache = [m \in Members |-> NotCached]
  /\ oom \in BOOLEAN /\ art \in BOOLEAN
  /\ phase = "return" /\ call \in [kind : {"ExceptionClear"}, m : Members]

Next == Step \/ (\E kind \in DOMAIN tableInit : jni_on_call(kind)) \/ HostCall

Spec == Init /\ [][Next]_vars

\* Helpers in which every call needs the result of the one before it, and those
\* that go on after a call that threw.
ChainedHelpers == {"getJClassName", "print_jstring", "print_jobject_safe",
                   "print_jobject_or_string", "InfoResolved"}
Reflectors == {"resolveMethodByReflection", "resolveFieldByReflection"}

-----------------------------------------------------------------------------
(* Properties.                                                             *)

\* JniExceptionGuard: "save and clear at the entry of a helper, put it back as it
\* was at the exit". When a helper or a handler is done, exception and number of
\* local references in each frame are what it found, whichever of the tracer's
\* own calls failed and whatever the pending exception was.
HandlersTransparent == Done => Scope.before = <<exc, frames>>

\* "ART checks !IsExceptionPending() in almost every entry": no such function is
\* called with an exception pending, the tracer's own exceptions included.
\* Violated: see Findings in the README.
NoCallUnderException ==
  ~Done /\ ~oom =>
    LET s == Statement IN
    Applies(s) /\ IsCall(s.fn) /\ s.fn \notin SafeFns => exc = "none"

\* The same for the helpers in which each call needs the result of the one before,
\* which therefore do nothing more once a call has thrown: short of memory or not,
\* whatever throws, in them or in a helper they ran, and whatever was pending.
ChainedCallsClean ==
  ~Done /\ Scope.helper \in ChainedHelpers =>
    LET s == Statement IN
    Applies(s) /\ IsCall(s.fn) /\ s.fn \notin SafeFns => exc = "none"

\* The caches keep what reflection found "for future lookups": a signature in them
\* has all its pieces, for print_va_args_from_sig reads the arguments by it.
\* Violated: see Findings in the README.
CachedInfoComplete ==
  ~oom => \A m \in Members : cache[m] \in {NotCached, Pieces(m)}

\* What reflection is about to cache has all its pieces unless one of its own calls
\* threw: parameters of any kind, classes that need no helper, members without
\* parameters leave nothing out.
PartialOnlyAfterThrow ==
  ~Done =>
    LET s == Statement IN
    s.fn = "cache" /\ Applies(s) => Scope.sig = Pieces(call.m) \/ exc = "trace"
=============================================================================
