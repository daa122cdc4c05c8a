--------------------------- MODULE IamServiceProtos ---------------------------
(* The message classes and enums of src/protos/iam_service.js: IAM          *)
(* policies.                                                                *)
EXTENDS ProtoSchema

-----------------------------------------------------------------------------
SetIamPolicyRequest == Message("google.iam.v1",
  <<One("resource", 1, "string"), Sub("policy", 2, "Policy")>>)

GetIamPolicyRequest == Message("google.iam.v1",
  <<One("resource", 1, "string"), Sub("options", 2, "GetPolicyOptions")>>)

TestIamPermissionsRequest == Message("google.iam.v1",
  <<One("resource", 1, "string"), Repeated("permissions", 2, "string")>>)

TestIamPermissionsResponse == Message("google.iam.v1",
  <<Repeated("permissions", 1, "string")>>)

GetPolicyOptions == Message("google.iam.v1",
  <<One("requestedPolicyVersion", 1, "int32")>>)

Policy == Message("google.iam.v1",
  <<One("version", 1, "int32"), One("etag", 3, "bytes"),
    Repeated("bindings", 4, "Binding")>>)

Binding == Message("google.iam.v1",
  <<One("role", 1, "string"), Repeated("members", 2, "string"),
    Sub("condition", 3, "Expr")>>)

PolicyDelta == Message("google.iam.v1",
  <<Repeated("bindingDeltas", 1, "BindingDelta"),
    Repeated("auditConfigDeltas", 2, "AuditConfigDelta")>>)

BindingDelta == Message("google.iam.v1",
  <<One("action", 1, "BindingDelta_Action"), One("role", 2, "string"),
    One("member", 3, "string"), Sub("condition", 4, "Expr")>>)

BindingDelta_Action == Enum("google.iam.v1",
    [ACTION_UNSPECIFIED |-> 0, ADD |-> 1, REMOVE |-> 2])

AuditConfigDelta == Message("google.iam.v1",
  <<One("action", 1, "AuditConfigDelta_Action"), One("service", 2, "string"),
    One("exemptedMember", 3, "string"), One("logType", 4, "string")>>)

AuditConfigDelta_Action == Enum("google.iam.v1",
    [ACTION_UNSPECIFIED |-> 0, ADD |-> 1, REMOVE |-> 2])

-----------------------------------------------------------------------------
AuditData == Message("google.iam.v1.logging",
  <<Sub("policyDelta", 2, "PolicyDelta")>>)

-----------------------------------------------------------------------------
Http == Message("google.api",
  <<Repeated("rules", 1, "HttpRule"), One("fullyDecodeReservedExpansion", 2, "bool")>>)

HttpRule == Message("google.api",
  <<One("selector", 1, "string"), ChoiceOr0("pattern", "get", 2, "string"),
    ChoiceOr0("pattern", "put", 3, "string"),
    ChoiceOr0("pattern", "post", 4, "string"),
    ChoiceOr0("pattern", "delete", 5, "string"),
    ChoiceOr0("pattern", "patch", 6, "string"), One("body", 7, "string"),
    Choice("pattern", "custom", 8, "CustomHttpPattern"),
    Repeated("additionalBindings", 11, "HttpRule"),
    One("responseBody", 12, "string")>>)

CustomHttpPattern == Message("google.api",
  <<One("kind", 1, "string"), One("path", 2, "string")>>)

FieldBehavior == Enum("google.api",
    [FIELD_BEHAVIOR_UNSPECIFIED |-> 0, OPTIONAL |-> 1, REQUIRED |-> 2,
     OUTPUT_ONLY |-> 3, INPUT_ONLY |-> 4, IMMUTABLE |-> 5])

ResourceDescriptor == Message("google.api",
  <<One("type", 1, "string"), Repeated("pattern", 2, "string"),
    One("nameField", 3, "string"), One("history", 4, "ResourceDescriptor_History"),
    One("plural", 5, "string"), One("singular", 6, "string")>>)

ResourceDescriptor_History == Enum("google.api",
    [HISTORY_UNSPECIFIED |-> 0, ORIGINALLY_SINGLE_PATTERN |-> 1,
     FUTURE_MULTI_PATTERN |-> 2])

ResourceReference == Message("google.api",
  <<One("type", 1, "string"), One("childType", 2, "string")>>)

-----------------------------------------------------------------------------
FileDescriptorSet == Message("google.protobuf",
  <<Repeated("file", 1, "FileDescriptorProto")>>)

FileDescriptorProto == Message("google.protobuf",
  <<One("name", 1, "string"), One("package", 2, "string"),
    Repeated("dependency", 3, "string"),
    Repeated("messageType", 4, "DescriptorProto"),
    Repeated("enumType", 5, "EnumDescriptorProto"),
    Repeated("service", 6, "ServiceDescriptorProto"),
    Repeated("extension", 7, "FieldDescriptorProto"),
    Sub("options", 8, "FileOptions"), Sub("sourceCodeInfo", 9, "SourceCodeInfo"),
    Repeated("publicDependency", 10, "int32"),
    Repeated("weakDependency", 11, "int32"), One("syntax", 12, "string")>>)

DescriptorProto == Message("google.protobuf",
  <<One("name", 1, "string"), Repeated("field", 2, "FieldDescriptorProto"),
    Repeated("nestedType", 3, "DescriptorProto"),
    Repeated("enumType", 4, "EnumDescriptorProto"),
    Repeated("extensionRange", 5, "DescriptorProto_ExtensionRange"),
    Repeated("extension", 6, "FieldDescriptorProto"),
    Sub("options", 7, "MessageOptions"),
    Repeated("oneofDecl", 8, "OneofDescriptorProto"),
    Repeated("reservedRange", 9, "DescriptorProto_ReservedRange"),
    Repeated("reservedName", 10, "string")>>)

DescriptorProto_ExtensionRange == Message("google.protobuf",
  <<One("start", 1, "int32"), One("end", 2, "int32"),
    Sub("options", 3, "ExtensionRangeOptions")>>)

DescriptorProto_ReservedRange == Message("google.protobuf",
  <<One("start", 1, "int32"), One("end", 2, "int32")>>)

ExtensionRangeOptions == Message("google.protobuf",
  <<Repeated("uninterpretedOption", 999, "UninterpretedOption")>>)

FieldDescriptorProto == Message("google.protobuf",
  <<One("name", 1, "string"), One("extendee", 2, "string"),
    One("number", 3, "int32"), OneOr("label", 4, "FieldDescriptorProto_Label", 1),
    OneOr("type", 5, "FieldDescriptorProto_Type", 1), One("typeName", 6, "string"),
    One("defaultValue", 7, "string"), Sub("options", 8, "FieldOptions"),
    One("oneofIndex", 9, "int32"), One("jsonName", 10, "string"),
    One("proto3Optional", 17, "bool")>>)

FieldDescriptorProto_Type == Enum("google.protobuf",
    [TYPE_DOUBLE |-> 1, TYPE_FLOAT |-> 2, TYPE_INT64 |-> 3, TYPE_UINT64 |-> 4,
     TYPE_INT32 |-> 5, TYPE_FIXED64 |-> 6, TYPE_FIXED32 |-> 7, TYPE_BOOL |-> 8,
     TYPE_STRING |-> 9, TYPE_GROUP |-> 10, TYPE_MESSAGE |-> 11, TYPE_BYTES |-> 12,
     TYPE_UINT32 |-> 13, TYPE_ENUM |-> 14, TYPE_SFIXED32 |-> 15,
     TYPE_SFIXED64 |-> 16, TYPE_SINT32 |-> 17, TYPE_SINT64 |-> 18])

FieldDescriptorProto_Label == Enum("google.protobuf",
    [LABEL_OPTIONAL |-> 1, LABEL_REQUIRED |-> 2, LABEL_REPEATED |-> 3])

OneofDescriptorProto == Message("google.protobuf",
  <<One("name", 1, "string"), Sub("options", 2, "OneofOptions")>>)

EnumDescriptorProto == Message("google.protobuf",
  <<One("name", 1, "string"), Repeated("value", 2, "EnumValueDescriptorProto"),
    Sub("options", 3, "EnumOptions"),
    Repeated("reservedRange", 4, "EnumDescriptorProto_EnumReservedRange"),
    Repeated("reservedName", 5, "string")>>)

EnumDescriptorProto_EnumReservedRange == Message("google.protobuf",
  <<One("start", 1, "int32"), One("end", 2, "int32")>>)

EnumValueDescriptorProto == Message("google.protobuf",
  <<One("name", 1, "string"), One("number", 2, "int32"),
    Sub("options", 3, "EnumValueOptions")>>)

ServiceDescriptorProto == Message("google.protobuf",
  <<One("name", 1, "string"), Repeated("method", 2, "MethodDescriptorProto"),
    Sub("options", 3, "ServiceOptions")>>)

MethodDescriptorProto == Message("google.protobuf",
  <<One("name", 1, "string"), One("inputType", 2, "string"),
    One("outputType", 3, "string"), Sub("options", 4, "MethodOptions"),
    One("clientStreaming", 5, "bool"), One("serverStreaming", 6, "bool")>>)

FileOptions == Message("google.protobuf",
  <<One("javaPackage", 1, "string"), One("javaOuterClassname", 8, "string"),
    OneOr("optimizeFor", 9, "FileOptions_OptimizeMode", 1),
    One("javaMultipleFiles", 10, "bool"), One("goPackage", 11, "string"),
    One("ccGenericServices", 16, "bool"), One("javaGenericServices", 17, "bool"),
    One("pyGenericServices", 18, "bool"),
    One("javaGenerateEqualsAndHash", 20, "bool"), One("deprecated", 23, "bool"),
    One("javaStringCheckUtf8", 27, "bool"), OneOr("ccEnableArenas", 31, "bool", 1),
    One("objcClassPrefix", 36, "string"), One("csharpNamespace", 37, "string"),
    One("swiftPrefix", 39, "string"), One("phpClassPrefix", 40, "string"),
    One("phpNamespace", 41, "string"), One("phpGenericServices", 42, "bool"),
    One("phpMetadataNamespace", 44, "string"), One("rubyPackage", 45, "string"),
    Repeated("uninterpretedOption", 999, "UninterpretedOption"),
    Repeated(".google.api.resourceDefinition", 1053, "ResourceDescriptor")>>)

FileOptions_OptimizeMode == Enum("google.protobuf",
    [SPEED |-> 1, CODE_SIZE |-> 2, LITE_RUNTIME |-> 3])

MessageOptions == Message("google.protobuf",
  <<One("messageSetWireFormat", 1, "bool"),
    One("noStandardDescriptorAccessor", 2, "bool"), One("deprecated", 3, "bool"),
    One("mapEntry", 7, "bool"),
    Repeated("uninterpretedOption", 999, "UninterpretedOption"),
    Sub(".google.api.resource", 1053, "ResourceDescriptor")>>)

FieldOptions == Message("google.protobuf",
  <<One("ctype", 1, "FieldOptions_CType"), One("packed", 2, "bool"),
    One("deprecated", 3, "bool"), One("lazy", 5, "bool"),
    One("jstype", 6, "FieldOptions_JSType"), One("weak", 10, "bool"),
    Repeated("uninterpretedOption", 999, "UninterpretedOption"),
    Packed(".google.api.fieldBehavior", 1052, "FieldBehavior"),
    Sub(".google.api.resourceReference", 1055, "ResourceReference")>>)

FieldOptions_CType == Enum("google.protobuf",
    [STRING |-> 0, CORD |-> 1, STRING_PIECE |-> 2])

FieldOptions_JSType == Enum("google.protobuf",
    [JS_NORMAL |-> 0, JS_STRING |-> 1, JS_NUMBER |-> 2])

OneofOptions == Message("google.protobuf",
  <<Repeated("uninterpretedOption", 999, "UninterpretedOption")>>)

EnumOptions == Message("google.protobuf",
  <<One("allowAlias", 2, "bool"), One("deprecated", 3, "bool"),
    Repeated("uninterpretedOption", 999, "UninterpretedOption")>>)

EnumValueOptions == Message("google.protobuf",
  <<One("deprecated", 1, "bool"),
    Repeated("uninterpretedOption", 999, "UninterpretedOption")>>)

ServiceOptions == Message("google.protobuf",
  <<One("deprecated", 33, "bool"),
    Repeated("uninterpretedOption", 999, "UninterpretedOption"),
    One(".google.api.defaultHost", 1049, "string"),
    One(".google.api.oauthScopes", 1050, "string")>>)

MethodOptions == Message("google.protobuf",
  <<One("deprecated", 33, "bool"),
    One("idempotencyLevel", 34, "MethodOptions_IdempotencyLevel"),
    Repeated("uninterpretedOption", 999, "UninterpretedOption"),
    Repeated(".google.api.methodSignature", 1051, "string"),
    Sub(".google.api.http", 72295728, "HttpRule")>>)

MethodOptions_IdempotencyLevel == Enum("google.protobuf",
    [IDEMPOTENCY_UNKNOWN |-> 0, NO_SIDE_EFFECTS |-> 1, IDEMPOTENT |-> 2])

UninterpretedOption == Message("google.protobuf",
  <<Repeated("name", 2, "UninterpretedOption_NamePart"),
    One("identifierValue", 3, "string"), One("positiveIntValue", 4, "uint64"),
    One("negativeIntValue", 5, "int64"), One("doubleValue", 6, "double"),
    One("stringValue", 7, "bytes"), One("aggregateValue", 8, "string")>>)

UninterpretedOption_NamePart == Message("google.protobuf",
  <<Required("namePart", 1, "string"), Required("isExtension", 2, "bool")>>)

SourceCodeInfo == Message("google.protobuf",
  <<Repeated("location", 1, "SourceCodeInfo_Location")>>)

SourceCodeInfo_Location == Message("google.protobuf",
  <<Packed("path", 1, "int32"), Packed("span", 2, "int32"),
    One("leadingComments", 3, "string"), One("trailingComments", 4, "string"),
    Repeated("leadingDetachedComments", 6, "string")>>)

GeneratedCodeInfo == Message("google.protobuf",
  <<Repeated("annotation", 1, "GeneratedCodeInfo_Annotation")>>)

GeneratedCodeInfo_Annotation == Message("google.protobuf",
  <<Packed("path", 1, "int32"), One("sourceFile", 2, "string"),
    One("begin", 3, "int32"), One("end", 4, "int32")>>)

-----------------------------------------------------------------------------
Expr == Message("google.type",
  <<One("expression", 1, "string"), One("title", 2, "string"),
    One("description", 3, "string"), One("location", 4, "string")>>)

-----------------------------------------------------------------------------
(* All of them, under their names. *)
Package ==
    [SetIamPolicyRequest |-> SetIamPolicyRequest,
     GetIamPolicyRequest |-> GetIamPolicyRequest,
     TestIamPermissionsRequest |-> TestIamPermissionsRequest,
     TestIamPermissionsResponse |-> TestIamPermissionsResponse,
     GetPolicyOptions |-> GetPolicyOptions, Policy |-> Policy, Binding |-> Binding,
     PolicyDelta |-> PolicyDelta, BindingDelta |-> BindingDelta,
     BindingDelta_Action |-> BindingDelta_Action,
     AuditConfigDelta |-> AuditConfigDelta,
     AuditConfigDelta_Action |-> AuditConfigDelta_Action, AuditData |-> AuditData,
     Http |-> Http, HttpRule |-> HttpRule, CustomHttpPattern |-> CustomHttpPattern,
     FieldBehavior |-> FieldBehavior, ResourceDescriptor |-> ResourceDescriptor,
     ResourceDescriptor_History |-> ResourceDescriptor_History,
     ResourceReference |-> ResourceReference,
     FileDescriptorSet |-> FileDescriptorSet,
     FileDescriptorProto |-> FileDescriptorProto,
     DescriptorProto |-> DescriptorProto,
     DescriptorProto_ExtensionRange |-> DescriptorProto_ExtensionRange,
     DescriptorProto_ReservedRange |-> DescriptorProto_ReservedRange,
     ExtensionRangeOptions |-> ExtensionRangeOptions,
     FieldDescriptorProto |-> FieldDescriptorProto,
     FieldDescriptorProto_Type |-> FieldDescriptorProto_Type,
     FieldDescriptorProto_Label |-> FieldDescriptorProto_Label,
     OneofDescriptorProto |-> OneofDescriptorProto,
     EnumDescriptorProto |-> EnumDescriptorProto,
     EnumDescriptorProto_EnumReservedRange |-> EnumDescriptorProto_EnumReservedRange,
     EnumValueDescriptorProto |-> EnumValueDescriptorProto,
     ServiceDescriptorProto |-> ServiceDescriptorProto,
     MethodDescriptorProto |-> MethodDescriptorProto, FileOptions |-> FileOptions,
     FileOptions_OptimizeMode |-> FileOptions_OptimizeMode,
     MessageOptions |-> MessageOptions, FieldOptions |-> FieldOptions,
     FieldOptions_CType |-> FieldOptions_CType,
     FieldOptions_JSType |-> FieldOptions_JSType, OneofOptions |-> OneofOptions,
     EnumOptions |-> EnumOptions, EnumValueOptions |-> EnumValueOptions,
     ServiceOptions |-> ServiceOptions, MethodOptions |-> MethodOptions,
     MethodOptions_IdempotencyLevel |-> MethodOptions_IdempotencyLevel,
     UninterpretedOption |-> UninterpretedOption,
     UninterpretedOption_NamePart |-> UninterpretedOption_NamePart,
     SourceCodeInfo |-> SourceCodeInfo,
     SourceCodeInfo_Location |-> SourceCodeInfo_Location,
     GeneratedCodeInfo |-> GeneratedCodeInfo,
     GeneratedCodeInfo_Annotation |-> GeneratedCodeInfo_Annotation, Expr |-> Expr]

===============================================================================
