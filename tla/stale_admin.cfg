SPECIFICATION Spec
CONSTANTS
    Id = {n1, n2, n3, n4}
    Bootstrap = {n1, n2, n3}
    Request = {q1, q2}
    MaxChanges = 3
INVARIANT AnswerNamesTheChange
