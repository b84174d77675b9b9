SPECIFICATION Spec
CONSTANTS
    invoice1 = invoice1
    invoice2 = invoice2
    bill1 = bill1
    post1 = post1
    post2 = post2
    post3 = post3
    Move = {invoice1, invoice2, bill1}
    Customer = {invoice1, invoice2}
    Call = {post1, post2, post3}
INVARIANTS
    TypeOK
    OneReceipt
PROPERTIES
    EveryPostEnds
CHECK_DEADLOCK FALSE
