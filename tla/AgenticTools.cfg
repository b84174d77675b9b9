SPECIFICATION Spec
CONSTANTS
    call1 = call1
    call2 = call2
    cart1 = cart1
    admin1 = admin1
    admin2 = admin2
    Tool = {"verify", "x402"}
    Call = {call1, call2}
    Cart = {cart1}
    Admin = {admin1, admin2}
    MaxSaves = 2
INVARIANTS
    TypeOK
    PaidOnce
    SuccessMeansPaid
    InstallEnablesNoPayment
PROPERTIES
    OnlyChoiceOrStaleFormDisables
    EveryCallEnds
    PaymentRefined
