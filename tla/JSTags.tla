------------------------------- MODULE JSTags -------------------------------
(***************************************************************************)
(* The tag space of quickjs.h: the closed set of value kinds.  Tags with a *)
(* reference count are negative and numbered from JS_TAG_FIRST upward, so  *)
(* one unsigned comparison separates them from the inline tags.            *)
(***************************************************************************)
EXTENDS Integers

JS_TAG_FIRST             == -9
JS_TAG_BIG_INT           == -9
JS_TAG_SYMBOL            == -8
JS_TAG_STRING            == -7
JS_TAG_MODULE            == -3
JS_TAG_FUNCTION_BYTECODE == -2
JS_TAG_OBJECT            == -1
JS_TAG_INT               == 0
JS_TAG_BOOL              == 1
JS_TAG_NULL              == 2
JS_TAG_UNDEFINED         == 3
JS_TAG_UNINITIALIZED     == 4
JS_TAG_CATCH_OFFSET      == 5
JS_TAG_EXCEPTION         == 6
JS_TAG_SHORT_BIG_INT     == 7
JS_TAG_FLOAT64           == 8

\* The heap-allocated kinds, the ones a JS_MKPTR value carries.
RefCountedTags == {JS_TAG_BIG_INT, JS_TAG_SYMBOL, JS_TAG_STRING,
                   JS_TAG_MODULE, JS_TAG_FUNCTION_BYTECODE, JS_TAG_OBJECT}

\* The kinds whose payload is an int32 written by JS_MKVAL.
Int32PayloadTags == {JS_TAG_INT, JS_TAG_BOOL, JS_TAG_NULL, JS_TAG_UNDEFINED,
                     JS_TAG_UNINITIALIZED, JS_TAG_CATCH_OFFSET,
                     JS_TAG_EXCEPTION, JS_TAG_SHORT_BIG_INT}

Tags == RefCountedTags \cup Int32PayloadTags \cup {JS_TAG_FLOAT64}
=============================================================================
