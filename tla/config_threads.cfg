SPECIFICATION Spec
CONSTANTS
    w1 = w1
    w2 = w2
    p1 = p1
    Worker <- MCWorkers
    Page = {p1}
    MaxTokens = 2
    Overrides = {{}, {"user", "password"}}
    PasswordAlone = FALSE
SYMMETRY WorkerSymmetry
INVARIANTS EnabledHasToken SecurityExclusive AcceptedEmailWorks
PROPERTY ForgottenStaysRevoked
