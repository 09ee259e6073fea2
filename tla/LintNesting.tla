----------------------------- MODULE LintNesting -----------------------------
(***************************************************************************)
(* The class NestingState of tools/cpplint/cpplint.py as it goes through a   *)
(* file line by line: the stack of open blocks, saved and restored at         *)
(* preprocessor directives.                                                  *)
(***************************************************************************)
EXTENDS LintBlocks

VARIABLES
  elided,              \* the lines of the file, without comments and strings
  line,                \* the line to be read next
  stack,               \* the open blocks, the innermost last
  previous_stack_top,  \* the top before the last line and its depth
  pp_stack             \* what is saved for every open #if

nesting == <<line, stack, previous_stack_top, pp_stack>>

(* The block on top of a stack, and its depth.  It is compared by identity     *)
(* with a block of the next stack: a directive that restores a saved stack    *)
(* leaves copies there.                                                      *)
TopOf(s, copied) ==
  [depth |-> Len(s), kind |-> IF s = <<>> THEN "" ELSE Last(s).kind, copied |-> copied]

Directive(l) == IF l = <<>> THEN "" ELSE l[1]

Restores(directive) ==
  /\ pp_stack # <<>>
  /\ directive \in Else \/ (directive = "#endif" /\ Last(pp_stack).seen_else)

(* Mutant: every #elif and #else saves the stack, not only the first. *)
UpdatePreprocessorLast(directive) ==
  LET saved == Last(pp_stack)
      Keep(s, pp) == [stack |-> s, pp_stack |-> pp]
  IN CASE directive \in If ->
            Keep(stack, Append(pp_stack, [stack_before_if |-> stack,
                                          stack_before_else |-> <<>>, seen_else |-> FALSE]))
       [] directive \in Else /\ pp_stack # <<>> ->
            Keep(saved.stack_before_if,
                 Append(Front(pp_stack),
                        [saved EXCEPT !.seen_else = TRUE, !.stack_before_else = stack]))
       [] directive = "#endif" /\ pp_stack # <<>> ->
            Keep(IF saved.seen_else THEN saved.stack_before_else ELSE stack,
                 Front(pp_stack))
       [] OTHER -> Keep(stack, pp_stack)

(* UpdatePreprocessor: the condition of an #if counts as true, up to #else,   *)
(* #elif or #endif.  The value is the stack and the saved ones.              *)
UpdatePreprocessor(directive) ==
  LET saved == Last(pp_stack)
      Keep(s, pp) == [stack |-> s, pp_stack |-> pp]
  IN CASE directive \in If ->
            Keep(stack, Append(pp_stack, [stack_before_if |-> stack,
                                          stack_before_else |-> <<>>, seen_else |-> FALSE]))
       [] directive \in Else /\ pp_stack # <<>> ->
            Keep(saved.stack_before_if,
                 IF saved.seen_else THEN pp_stack
                 ELSE Append(Front(pp_stack),
                             [saved EXCEPT !.seen_else = TRUE, !.stack_before_else = stack]))
       [] directive = "#endif" /\ pp_stack # <<>> ->
            Keep(IF saved.seen_else THEN saved.stack_before_else ELSE stack,
                 Front(pp_stack))
       [] OTHER -> Keep(stack, pp_stack)

Update ==
  /\ line \in DOMAIN elided
  /\ LET now == UpdatePreprocessor(Directive(elided[line]))
     IN /\ stack' = Nest(now.stack, elided, line)
        /\ pp_stack' = now.pp_stack
  /\ previous_stack_top' = TopOf(stack, Restores(Directive(elided[line])))
  /\ line' = line + 1

NestingInit ==
  /\ line = 1 /\ stack = <<>> /\ pp_stack = <<>>
  /\ previous_stack_top = TopOf(<<>>, FALSE)

(* CheckForNamespaceIndentation: a class or namespace that the line puts       *)
(* directly into the namespace that was on top, or the forward declaration of *)
(* a class there, may not be indented.                                       *)
IsNamespaceIndentItem(s, previous) ==
  /\ Len(s) > 1 /\ ChecksIndentation(Last(s))
  /\ previous.kind = "namespace" /\ ~previous.copied
  /\ previous.depth = Len(s) - 1

IsForwardClassDeclaration(l) ==
  LET n == Len(l)
  IN n > 2 /\ l[n - 2] = "class" /\ IsWord(l, n - 1) /\ l[n] = ";"

IsMacroDefinition(lines, n) ==
  \/ Directive(lines[n]) = "#define"
  \/ n > 1 /\ IsSuffix(<<"\\">>, lines[n - 1])

IsBlockInNameSpace(s, is_forward_declaration) ==
  IF is_forward_declaration THEN TopIsA(s, "namespace")
  ELSE Len(s) > 1 /\ ChecksIndentation(Last(s)) /\ s[Len(s) - 1].kind = "namespace"

MayNotIndent(s, previous, lines, n) ==
  LET forward == IsForwardClassDeclaration(lines[n])
  IN /\ IsNamespaceIndentItem(s, previous) \/ forward
     /\ ~IsMacroDefinition(lines, n)
     /\ IsBlockInNameSpace(s, forward)

-----------------------------------------------------------------------------
(* The stack that the lines of the true branches alone have built: what was   *)
(* saved at the outermost #else, if there is one.                            *)
KeptStack ==
  LET else == SelectInSeq(pp_stack, LAMBDA p : p.seen_else)
  IN IF else = 0 THEN stack ELSE pp_stack[else].stack_before_else

Conditions == [i \in DOMAIN pp_stack |-> pp_stack[i].seen_else]

Live == INSTANCE LiveNesting WITH kept <- KeptStack, conditions <- Conditions

(* The blocks that are open at the end of a file are those of the lines in    *)
(* true branches, whatever braces stand in the others and however the         *)
(* directives nest: NestingState implements LiveNesting.                     *)
NestingIsLive == Live!Spec
=============================================================================
