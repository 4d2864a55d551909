SPECIFICATION MCSpec
CONSTANTS
    p1 = p1
    p2 = p2
    a = a
    b = b
    file = file
    skill = skill
    judged = judged
    fixture = fixture
    Procs = {p1, p2}
    NumRuns = 3
    Cases = {a, b}
    CaseOf <- AttemptsAndOne
    Declared <- TwoCases
    Scoped = {skill}
    Violation = fixture
    Modes = {"auto", "script", "none", "strict"}
    Scenes <- AllScenes
    MaxCommands = 2
    Formats = {"claude", "cursor", "codex"}
    Scripts <- RunScripts
    StagedDirs = {".skill", "skills"}
    Staged <- Recorded
    MaxLines = 5
    MaxLag = 1
    Caps <- OneCap
    e1 = e1
    e2 = e2
    e3 = e3
    EvalIds = {e1, e2, e3}
    Drawn <- ThreeDraws
    ClearlyAbove <- Above
    MaxRounds = 2
    MaxEdits = 2
    Total = 12
    Floor = 2
    Slack = 1
    Questions <- Questionnaire
    Pipe = 2
    Payloads = {1, 4}
    Plans <- ScriptPlans
    Traced = {a, b}
    Outcomes <- WaysToCome
    MaxGradings = 2
    MaxExports = 1
SYMMETRY Alike
INVARIANTS DocumentsAgree ScaleIsShared StreamsAreReadRight ImprovementIsHonest RequestsFit VerdictsAreThePanels ScriptsAreHeard ReplayCompletes
CHECK_DEADLOCK FALSE
